---- MODULE Spec2Model ----
(***************************************************************************)
(* MicroInvest: the recommendation engine (utils/investmentEngine), the    *)
(* GoalTracker, DCASimulator and HistoricalBacktest panels, and the Index  *)
(* page with its three-step wizard.                                        *)
(*                                                                         *)
(* JavaScript numbers are modelled as exact signed rationals num/den over  *)
(* arbitrary-precision naturals, together with the non-finite values NaN   *)
(* and Infinity that the code's divisions can produce.  Naturals are       *)
(* little-endian sequences of limbs in base Base.                          *)
(***************************************************************************)
EXTENDS Integers, Sequences, FiniteSets, TLC

VARIABLES
  pc,             \* position of the call being modelled
  userData,       \* argument of generatePortfolioRecommendation
  portfolioData,  \* its result (Null before the call)
  projection,     \* the projection formula alone: its operands and value
  props,          \* the props of the mounted panel (GoalTracker or DCASimulator)
  goalAmount,     \* GoalTracker state
  goalDescription,
  showRecommendations,
  customMonthly,  \* DCASimulator state
  showComparison,
  backtest,       \* HistoricalBacktest: props, timeRange, random stream, loop state
  step,           \* Index state, with portfolioData above
  isLoading,
  formData,
  pending,        \* the submitted data of the calls waiting on their timer
  isGenerating,   \* PDFExport state
  exportLog,      \* what the export panel has saved or reported, in order
  tables,         \* the rows of the portfolios and investment_goals tables
  lastOp          \* the caller of the last statement and the rows it returned

engineVars == <<userData, portfolioData>>
goalVars == <<props, goalAmount, goalDescription, showRecommendations>>
dcaVars == <<customMonthly, showComparison>>
wizardVars == <<step, isLoading, formData, pending>>
exportVars == <<isGenerating, exportLog>>
dbVars == <<tables, lastOp>>
vars == <<pc, userData, portfolioData, projection, props, goalAmount,
          goalDescription, showRecommendations, customMonthly, showComparison,
          backtest, step, isLoading, formData, pending, isGenerating, exportLog,
          tables, lastOp>>

(***************************************************************************)
(* Arbitrary-precision naturals.                                           *)
(***************************************************************************)
Base == 1000

Max2(a, b) == IF a >= b THEN a ELSE b
Min2(a, b) == IF a <= b THEN a ELSE b

Limb(a, k) == IF k >= 1 /\ k <= Len(a) THEN a[k] ELSE 0

\* floor(v / Base) and v mod Base for any integer v
FloorDivBase(v) == IF v >= 0 THEN v \div Base ELSE -((Base - 1 - v) \div Base)
ModBase(v) == v - Base * FloorDivBase(v)

RECURSIVE BigNorm(_)
BigNorm(s) ==
  IF Len(s) > 0 /\ s[Len(s)] = 0 THEN BigNorm(SubSeq(s, 1, Len(s) - 1)) ELSE s

\* Bring every limb of t into 0..Base-1, moving the excess to the next limb;
\* one pass moves each excess one place, passes repeat until none is left.
RECURSIVE BigCarry(_)
BigCarry(t) ==
  IF \A k \in 1..Len(t) : t[k] >= 0 /\ t[k] < Base THEN BigNorm(t)
  ELSE BigCarry([k \in 1..(Len(t) + 1) |->
                   (IF k <= Len(t) THEN ModBase(t[k]) ELSE 0)
                   + (IF k > 1 THEN FloorDivBase(t[k - 1]) ELSE 0)])

BigFromNat(n) == BigCarry(<<n>>)

RECURSIVE BigToNatFrom(_, _)
BigToNatFrom(a, k) ==
  IF k > Len(a) THEN 0 ELSE a[k] + Base * BigToNatFrom(a, k + 1)
BigToNat(a) == BigToNatFrom(a, 1)

BigZero == <<>>
BigOne == <<1>>

BigAdd(a, b) ==
  BigCarry([k \in 1..Max2(Len(a), Len(b)) |-> Limb(a, k) + Limb(b, k)])

\* a - b for a >= b
BigSub(a, b) ==
  BigCarry([k \in 1..Max2(Len(a), Len(b)) |-> Limb(a, k) - Limb(b, k)])

\* -1, 0, 1 as a < b, a = b, a > b (both normalised)
BigCmp(a, b) ==
  IF Len(a) < Len(b) THEN -1
  ELSE IF Len(a) > Len(b) THEN 1
  ELSE IF a = b THEN 0
  ELSE LET top == CHOOSE k \in 1..Len(a) :
                    a[k] # b[k] /\ \A j \in (k + 1)..Len(a) : a[j] = b[j]
       IN IF a[top] < b[top] THEN -1 ELSE 1

BigLeq(a, b) == BigCmp(a, b) <= 0
BigLess(a, b) == BigCmp(a, b) < 0

\* sum of a[i] * b[k - i + 1] for i in lo..hi
RECURSIVE BigConv(_, _, _, _, _)
BigConv(a, b, k, lo, hi) ==
  IF lo > hi THEN 0
  ELSE IF lo = hi THEN a[lo] * b[k - lo + 1]
  ELSE LET mid == (lo + hi) \div 2
       IN BigConv(a, b, k, lo, mid) + BigConv(a, b, k, mid + 1, hi)

BigMul(a, b) ==
  IF Len(a) = 0 \/ Len(b) = 0 THEN <<>>
  ELSE BigCarry([k \in 1..(Len(a) + Len(b) - 1) |->
                   BigConv(a, b, k, Max2(1, k + 1 - Len(b)), Min2(k, Len(a)))])

RECURSIVE BigPow(_, _)
BigPow(a, n) ==
  IF n = 0 THEN BigOne
  ELSE LET h == BigPow(a, n \div 2)
           sq == BigMul(h, h)
       IN IF n % 2 = 0 THEN sq ELSE BigMul(sq, a)

\* floor(a / 2)
BigHalf(a) ==
  BigNorm([k \in 1..Len(a) |-> (a[k] + Base * (Limb(a, k + 1) % 2)) \div 2])

\* floor(a / d) for d > 0, by doubling then bisection on the quotient
RECURSIVE BigDivUpper(_, _, _)
BigDivUpper(a, d, hi) ==
  IF BigLess(a, BigMul(d, hi)) THEN hi ELSE BigDivUpper(a, d, BigAdd(hi, hi))

RECURSIVE BigBisect(_, _, _, _)
BigBisect(a, d, lo, hi) ==
  \* lo * d <= a < hi * d
  IF BigAdd(lo, BigOne) = hi THEN lo
  ELSE LET mid == BigHalf(BigAdd(lo, hi))
       IN IF BigLeq(BigMul(d, mid), a) THEN BigBisect(a, d, mid, hi)
                                       ELSE BigBisect(a, d, lo, mid)

BigDiv(a, d) == BigBisect(a, d, BigZero, BigDivUpper(a, d, BigOne))

(***************************************************************************)
(* JavaScript numbers: a finite value num/den >= 0, NaN or Infinity; the   *)
(* two other kinds are the non-numbers a property lookup can return.       *)
(***************************************************************************)
Num(n, d) ==
  [kind |-> "finite", neg |-> FALSE, num |-> BigFromNat(n), den |-> BigFromNat(d)]
\* sign and magnitude; zero is never negative
BigNum(neg, n, d) ==
  [kind |-> "finite", neg |-> (neg /\ n # BigZero), num |-> n, den |-> d]
NaN == [kind |-> "NaN", neg |-> FALSE, num |-> BigZero, den |-> BigOne]
Infinity == [kind |-> "Infinity", neg |-> FALSE, num |-> BigOne, den |-> BigZero]
NegInfinity == [kind |-> "Infinity", neg |-> TRUE, num |-> BigOne, den |-> BigZero]
Undefined == [kind |-> "undefined", neg |-> FALSE, num |-> BigZero, den |-> BigOne]
Function == [kind |-> "function", neg |-> FALSE, num |-> BigZero, den |-> BigOne]
Null == [kind |-> "null"]

Inf(neg) == IF neg THEN NegInfinity ELSE Infinity

IsFinite(x) == x.kind = "finite"
IsNaN(x) == x.kind = "NaN"
IsZero(x) == x.kind = "finite" /\ x.num = BigZero

\* ToNumber: undefined and a function both convert to NaN
ToNumber(x) == IF x.kind \in {"undefined", "function"} THEN NaN ELSE x

\* ToBoolean: undefined, 0 and NaN are falsy
Truthy(x) == ~(x.kind \in {"undefined", "NaN"} \/ IsZero(x))

\* a || b
JSOr(a, b) == IF Truthy(a) THEN a ELSE b

\* -1, 0, 1 as x < y, x = y, x > y, for numbers other than NaN
NumCmp(x, y) ==
  IF x.kind = "Infinity" \/ y.kind = "Infinity"
  THEN IF x.kind = y.kind /\ x.neg = y.neg THEN 0
       ELSE IF x.kind = "Infinity" THEN (IF x.neg THEN -1 ELSE 1)
       ELSE (IF y.neg THEN 1 ELSE -1)
  ELSE IF x.neg # y.neg THEN (IF x.neg THEN -1 ELSE 1)
  ELSE LET c == BigCmp(BigMul(x.num, y.den), BigMul(y.num, x.den))
       IN IF x.neg THEN -c ELSE c

\* ===, <, <= on numbers: false whenever an operand is NaN
NumEq(x, y) == ~IsNaN(x) /\ ~IsNaN(y) /\ NumCmp(x, y) = 0
NumLess(x, y) == ~IsNaN(x) /\ ~IsNaN(y) /\ NumCmp(x, y) < 0
NumLeq(x, y) == ~IsNaN(x) /\ ~IsNaN(y) /\ NumCmp(x, y) <= 0

Negate(x) ==
  IF x.kind = "Infinity" THEN Inf(~x.neg)
  ELSE IF x.kind = "finite" THEN BigNum(~x.neg, x.num, x.den)
  ELSE x

JSAdd(a, b) ==
  LET x == ToNumber(a)
      y == ToNumber(b)
  IN IF IsNaN(x) \/ IsNaN(y) THEN NaN
     ELSE IF x.kind = "Infinity" /\ y.kind = "Infinity"
          THEN IF x.neg = y.neg THEN x ELSE NaN
     ELSE IF x.kind = "Infinity" THEN x
     ELSE IF y.kind = "Infinity" THEN y
     ELSE LET xn == BigMul(x.num, y.den)
              yn == BigMul(y.num, x.den)
              d == BigMul(x.den, y.den)
          IN IF x.neg = y.neg THEN BigNum(x.neg, BigAdd(xn, yn), d)
             ELSE IF BigLeq(yn, xn) THEN BigNum(x.neg, BigSub(xn, yn), d)
             ELSE BigNum(y.neg, BigSub(yn, xn), d)

JSSub(a, b) == JSAdd(a, Negate(ToNumber(b)))

JSMul(a, b) ==
  LET x == ToNumber(a)
      y == ToNumber(b)
  IN IF IsNaN(x) \/ IsNaN(y) THEN NaN
     ELSE IF x.kind = "Infinity" \/ y.kind = "Infinity"
          THEN IF IsZero(x) \/ IsZero(y) THEN NaN ELSE Inf(x.neg # y.neg)
     ELSE BigNum(x.neg # y.neg, BigMul(x.num, y.num), BigMul(x.den, y.den))

JSDiv(a, b) ==
  LET x == ToNumber(a)
      y == ToNumber(b)
  IN IF IsNaN(x) \/ IsNaN(y) THEN NaN
     ELSE IF x.kind = "Infinity"
          THEN IF y.kind = "Infinity" THEN NaN ELSE Inf(x.neg # y.neg)
     ELSE IF y.kind = "Infinity" THEN Num(0, 1)
     ELSE IF IsZero(y) THEN IF IsZero(x) THEN NaN ELSE Inf(x.neg)
     ELSE BigNum(x.neg # y.neg, BigMul(x.num, y.den), BigMul(x.den, y.num))

\* Math.min and Math.max of two numbers: NaN if either is NaN
MathMin(a, b) ==
  LET x == ToNumber(a)
      y == ToNumber(b)
  IN IF IsNaN(x) \/ IsNaN(y) THEN NaN
     ELSE IF NumCmp(x, y) <= 0 THEN x ELSE y

MathMax(a, b) ==
  LET x == ToNumber(a)
      y == ToNumber(b)
  IN IF IsNaN(x) \/ IsNaN(y) THEN NaN
     ELSE IF NumCmp(x, y) >= 0 THEN x ELSE y

\* Math.floor and Math.ceil
MathFloor(a) ==
  LET x == ToNumber(a)
  IN IF x.kind # "finite" THEN x
     ELSE IF x.neg
          THEN BigNum(TRUE, BigDiv(BigSub(BigAdd(x.num, x.den), BigOne), x.den), BigOne)
          ELSE BigNum(FALSE, BigDiv(x.num, x.den), BigOne)

MathCeil(a) == Negate(MathFloor(Negate(ToNumber(a))))

\* Math.round: the nearest integer, halves upwards
MathRound(a) == MathFloor(JSAdd(a, Num(1, 2)))

\* a finite number with an integral value, and that value
IsIntegral(x) == IsFinite(x) /\ BigMul(BigDiv(x.num, x.den), x.den) = x.num
IntOf(x) ==
  IF x.neg THEN -BigToNat(BigDiv(x.num, x.den)) ELSE BigToNat(BigDiv(x.num, x.den))
NatOf(x) == BigToNat(BigDiv(x.num, x.den))

\* Math.pow(base, e) for a finite base >= 0 and an exponent that is a
\* natural number or NaN
MathPow(base, e) ==
  LET x == ToNumber(base)
      y == ToNumber(e)
  IN IF IsNaN(x) \/ IsNaN(y) THEN NaN
     ELSE BigNum(FALSE, BigPow(x.num, NatOf(y)), BigPow(x.den, NatOf(y)))

(***************************************************************************)
(* utils/investmentEngine                                                  *)
(***************************************************************************)
\* the instruments, without their display texts (name, description)
INVESTMENT_OPTIONS == <<
  [symbol |-> "VOO",  allocation |-> 0, expectedReturn |-> Num(105, 10), riskLevel |-> "low"],
  [symbol |-> "VTI",  allocation |-> 0, expectedReturn |-> Num(108, 10), riskLevel |-> "medium"],
  [symbol |-> "AAPL", allocation |-> 0, expectedReturn |-> Num(120, 10), riskLevel |-> "medium"],
  [symbol |-> "MSFT", allocation |-> 0, expectedReturn |-> Num(115, 10), riskLevel |-> "medium"],
  [symbol |-> "BND",  allocation |-> 0, expectedReturn |-> Num(42, 10),  riskLevel |-> "low"],
  [symbol |-> "QQQ",  allocation |-> 0, expectedReturn |-> Num(132, 10), riskLevel |-> "high"] >>

\* { ...INVESTMENT_OPTIONS[i], allocation: a } (the source indexes from 0)
WithAllocation(i, a) == [INVESTMENT_OPTIONS[i + 1] EXCEPT !.allocation = a]

\* the names every object literal inherits from Object.prototype
ObjectPrototypeKeys ==
  {"constructor", "toString", "toLocaleString", "valueOf", "hasOwnProperty",
   "isPrototypeOf", "propertyIsEnumerable", "__proto__"}

\* obj[key]: an own property, else an inherited member, else undefined
GetProperty(obj, key) ==
  IF key \in DOMAIN obj THEN obj[key]
  ELSE IF key \in ObjectPrototypeKeys THEN Function
  ELSE Undefined

\* EngineTimeMultipliers with the multiplier of "2-years" mistyped as 1
EngineTimeMultipliers_TwoYearsIsOne ==
  [x \in {"3-months", "6-months", "1-year", "2-years", "5-years"} |->
     CASE x = "3-months" -> Num(25, 100)
       [] x = "6-months" -> Num(5, 10)
       [] x = "1-year"   -> Num(1, 1)
       [] x = "2-years"  -> Num(1, 1)
       [] x = "5-years"  -> Num(5, 1)]

EngineTimeMultipliers ==
  [x \in {"3-months", "6-months", "1-year", "2-years", "5-years"} |->
     CASE x = "3-months" -> Num(25, 100)
       [] x = "6-months" -> Num(5, 10)
       [] x = "1-year"   -> Num(1, 1)
       [] x = "2-years"  -> Num(2, 1)
       [] x = "5-years"  -> Num(5, 1)]

\* timeMultipliers[timeHorizon] || 1
EngineTimeMultiplier(timeHorizon) ==
  JSOr(GetProperty(EngineTimeMultipliers, timeHorizon), Num(1, 1))

\* SelectTemplate with the low template's last allocation 20 instead of 10
SelectTemplate_LowOverAllocated(riskTolerance) ==
  CASE riskTolerance = "low" ->
         [selectedInvestments |-> << WithAllocation(0, 60),
                                     WithAllocation(4, 30),
                                     WithAllocation(2, 20) >>,
          totalExpectedReturn |-> Num(78, 10),
          riskScore |-> 2]
    [] riskTolerance = "medium" ->
         [selectedInvestments |-> << WithAllocation(0, 50),
                                     WithAllocation(2, 25),
                                     WithAllocation(3, 15),
                                     WithAllocation(4, 10) >>,
          totalExpectedReturn |-> Num(98, 10),
          riskScore |-> 4]
    [] riskTolerance = "high" ->
         [selectedInvestments |-> << WithAllocation(5, 40),
                                     WithAllocation(1, 30),
                                     WithAllocation(2, 20),
                                     WithAllocation(3, 10) >>,
          totalExpectedReturn |-> Num(121, 10),
          riskScore |-> 7]
    [] OTHER ->
         [selectedInvestments |-> << WithAllocation(0, 100) >>,
          totalExpectedReturn |-> Num(105, 10),
          riskScore |-> 3]

\* SelectTemplate whose default case falls into the medium template
SelectTemplate_DefaultIsMedium(riskTolerance) ==
  CASE riskTolerance = "low" ->
         [selectedInvestments |-> << WithAllocation(0, 60),
                                     WithAllocation(4, 30),
                                     WithAllocation(2, 10) >>,
          totalExpectedReturn |-> Num(78, 10),
          riskScore |-> 2]
    [] riskTolerance = "high" ->
         [selectedInvestments |-> << WithAllocation(5, 40),
                                     WithAllocation(1, 30),
                                     WithAllocation(2, 20),
                                     WithAllocation(3, 10) >>,
          totalExpectedReturn |-> Num(121, 10),
          riskScore |-> 7]
    [] OTHER ->
         [selectedInvestments |-> << WithAllocation(0, 50),
                                     WithAllocation(2, 25),
                                     WithAllocation(3, 15),
                                     WithAllocation(4, 10) >>,
          totalExpectedReturn |-> Num(98, 10),
          riskScore |-> 4]

\* the switch over riskTolerance
SelectTemplate(riskTolerance) ==
  CASE riskTolerance = "low" ->
         [selectedInvestments |-> << WithAllocation(0, 60),
                                     WithAllocation(4, 30),
                                     WithAllocation(2, 10) >>,
          totalExpectedReturn |-> Num(78, 10),
          riskScore |-> 2]
    [] riskTolerance = "medium" ->
         [selectedInvestments |-> << WithAllocation(0, 50),
                                     WithAllocation(2, 25),
                                     WithAllocation(3, 15),
                                     WithAllocation(4, 10) >>,
          totalExpectedReturn |-> Num(98, 10),
          riskScore |-> 4]
    [] riskTolerance = "high" ->
         [selectedInvestments |-> << WithAllocation(5, 40),
                                     WithAllocation(1, 30),
                                     WithAllocation(2, 20),
                                     WithAllocation(3, 10) >>,
          totalExpectedReturn |-> Num(121, 10),
          riskScore |-> 7]
    [] OTHER ->
         [selectedInvestments |-> << WithAllocation(0, 100) >>,
          totalExpectedReturn |-> Num(105, 10),
          riskScore |-> 3]

\* EngineMonthlyReturn without the division by 12
EngineMonthlyReturn_Annual(totalExpectedReturn) ==
  JSDiv(totalExpectedReturn, Num(100, 1))

\* totalExpectedReturn / 100 / 12
EngineMonthlyReturn(totalExpectedReturn) ==
  JSDiv(JSDiv(totalExpectedReturn, Num(100, 1)), Num(12, 1))

\* timeMultiplier * 12
EngineTotalMonths(timeMultiplier) == JSMul(timeMultiplier, Num(12, 1))

\* FutureValueOfAnnuity with payments at the start of each month
FutureValueOfAnnuity_Due(monthlyContribution, totalExpectedReturn, totalMonths) ==
  LET monthlyReturn == JSDiv(JSDiv(totalExpectedReturn, Num(100, 1)), Num(12, 1))
  IN JSMul(JSDiv(JSMul(monthlyContribution,
                       JSSub(MathPow(JSAdd(Num(1, 1), monthlyReturn), totalMonths),
                             Num(1, 1))),
                 monthlyReturn),
           JSAdd(Num(1, 1), monthlyReturn))

\* the unrounded projectedValue: the future value of an annuity
FutureValueOfAnnuity(monthlyContribution, totalExpectedReturn, totalMonths) ==
  LET monthlyReturn == EngineMonthlyReturn(totalExpectedReturn)
  IN JSDiv(JSMul(monthlyContribution,
                 JSSub(MathPow(JSAdd(Num(1, 1), monthlyReturn), totalMonths),
                       Num(1, 1))),
           monthlyReturn)

generatePortfolioRecommendation(data) ==
  LET timeMultiplier == EngineTimeMultiplier(data.timeHorizon)
      template == SelectTemplate(data.riskTolerance)
      totalMonths == EngineTotalMonths(timeMultiplier)
      projectedValue == FutureValueOfAnnuity(data.monthlyBudget,
                                             template.totalExpectedReturn,
                                             totalMonths)
  IN [investments |-> template.selectedInvestments,
      totalExpectedReturn |-> template.totalExpectedReturn,
      riskScore |-> template.riskScore,
      monthlyAmount |-> data.monthlyBudget,
      projectedValue |-> MathRound(projectedValue),
      timeframe |-> data.timeHorizon]

(***************************************************************************)
(* The month count of a horizon label in the two panels.                   *)
(***************************************************************************)
GoalTrackerTimeMultipliers ==
  [x \in {"3-months", "6-months", "1-year", "2-years", "5-years"} |->
     CASE x = "3-months" -> Num(3, 1)
       [] x = "6-months" -> Num(6, 1)
       [] x = "1-year"   -> Num(12, 1)
       [] x = "2-years"  -> Num(24, 1)
       [] x = "5-years"  -> Num(60, 1)]

\* GoalTracker: timeMultipliers[timeframe] || 12
GoalTrackerMonths(timeframe) ==
  JSOr(GetProperty(GoalTrackerTimeMultipliers, timeframe), Num(12, 1))

DCASimulatorTimeMultipliers ==
  [x \in {"3-months", "6-months", "1-year", "2-years", "5-years"} |->
     CASE x = "3-months" -> Num(3, 1)
       [] x = "6-months" -> Num(6, 1)
       [] x = "1-year"   -> Num(12, 1)
       [] x = "2-years"  -> Num(24, 1)
       [] x = "5-years"  -> Num(60, 1)]

\* DCASimulator: timeMultipliers[timeframe] || 12
DCASimulatorMonths(timeframe) ==
  JSOr(GetProperty(DCASimulatorTimeMultipliers, timeframe), Num(12, 1))

(***************************************************************************)
(* components/GoalTracker: what a render computes from props and state.    *)
(***************************************************************************)
GoalMonths == GoalTrackerMonths(props.timeframe)

\* ProgressToward without the cap at 100
ProgressToward_Uncapped(amount) ==
  JSMul(JSDiv(props.projectedValue, amount), Num(100, 1))

\* Math.min((projectedValue / goalAmount) * 100, 100)
ProgressToward(amount) ==
  MathMin(JSMul(JSDiv(props.projectedValue, amount), Num(100, 1)), Num(100, 1))

goalProgress == ProgressToward(goalAmount)
\* shortfall without the clamp at 0
shortfall_Unclamped == JSSub(goalAmount, props.projectedValue)

shortfall == MathMax(JSSub(goalAmount, props.projectedValue), Num(0, 1))
surplus == MathMax(JSSub(props.projectedValue, goalAmount), Num(0, 1))

\* calculateRequiredMonthly taking the percentage as a fraction
calculateRequiredMonthly_NoPercent(targetAmount, months, annualReturn) ==
  LET monthlyReturn == JSDiv(annualReturn, Num(12, 1))
  IN IF NumEq(monthlyReturn, Num(0, 1)) THEN JSDiv(targetAmount, months)
     ELSE JSDiv(JSMul(targetAmount, monthlyReturn),
                JSSub(MathPow(JSAdd(Num(1, 1), monthlyReturn), months), Num(1, 1)))

calculateRequiredMonthly(targetAmount, months, annualReturn) ==
  LET monthlyReturn == JSDiv(JSDiv(annualReturn, Num(100, 1)), Num(12, 1))
  IN IF NumEq(monthlyReturn, Num(0, 1)) THEN JSDiv(targetAmount, months)
     ELSE JSDiv(JSMul(targetAmount, monthlyReturn),
                JSSub(MathPow(JSAdd(Num(1, 1), monthlyReturn), months), Num(1, 1)))

requiredMonthly == calculateRequiredMonthly(goalAmount, GoalMonths, props.expectedReturn)

goalScenarios == <<
  [amount |-> JSMul(goalAmount, Num(75, 100)), label |-> "Conservative"],
  [amount |-> goalAmount,                      label |-> "Target"],
  [amount |-> JSMul(goalAmount, Num(125, 100)), label |-> "Stretch"] >>

commonGoals == <<
  [name |-> "Emergency Fund",       amount |-> Num(3000, 1),  timeframe |-> "1-year"],
  [name |-> "Laptop Fund",          amount |-> Num(1500, 1),  timeframe |-> "6-months"],
  [name |-> "Study Abroad",         amount |-> Num(5000, 1),  timeframe |-> "2-years"],
  [name |-> "Car Down Payment",     amount |-> Num(3000, 1),  timeframe |-> "1-year"],
  [name |-> "Graduate School Fund", amount |-> Num(10000, 1), timeframe |-> "5-years"] >>

scenarioProgress(i) == ProgressToward(goalScenarios[i].amount)
scenarioRequiredMonthly(i) ==
  calculateRequiredMonthly(goalScenarios[i].amount, GoalMonths, props.expectedReturn)

\* the 'Extend Timeline' option rounding down
extendedTimeline_Floor ==
  MathFloor(JSMul(JSDiv(goalAmount, props.projectedValue), GoalMonths))

\* extendedTimeline without the scaling by months
extendedTimeline_Unscaled ==
  MathCeil(JSDiv(goalAmount, props.projectedValue))

\* the 'Extend Timeline' option: Math.ceil((goalAmount / projectedValue) * months)
extendedTimeline ==
  MathCeil(JSMul(JSDiv(goalAmount, props.projectedValue), GoalMonths))

\* the 'months longer' of the option: the same expression minus months
monthsLonger == JSSub(extendedTimeline, GoalMonths)

\* recommendationsShown with shortfall >= 0
recommendationsShown_AtZero == NumLeq(Num(0, 1), shortfall)

\* the recommendations panel is rendered when shortfall > 0
recommendationsShown == NumLess(Num(0, 1), shortfall)

(***************************************************************************)
(* components/DCASimulator: what a render computes from props and state.   *)
(***************************************************************************)
DCAMonths == DCASimulatorMonths(props.timeframe)

\* DCAMonthlyReturn without the division by 12
DCAMonthlyReturn_Annual == JSDiv(props.expectedReturn, Num(100, 1))

\* expectedReturn / 100 / 12
DCAMonthlyReturn == JSDiv(JSDiv(props.expectedReturn, Num(100, 1)), Num(12, 1))

\* DCAPoint counting the contribution of the month after
DCAPoint_ContributionsAhead(month, dcaValue, lumpSumValue) ==
  [month |-> month,
   dca |-> MathRound(dcaValue),
   lumpSum |-> MathRound(lumpSumValue),
   contributions |-> JSMul(Num(month + 1, 1), customMonthly)]

\* the point pushed for a month: the two values rounded, the contributions not
DCAPoint(month, dcaValue, lumpSumValue) ==
  [month |-> month,
   dca |-> MathRound(dcaValue),
   lumpSum |-> MathRound(lumpSumValue),
   contributions |-> JSMul(Num(month, 1), customMonthly)]

\* DCAStep leaving the lump sum as invested
DCAStep_FlatLumpSum(run, month) ==
  LET grown == month > 0
      dcaNext == IF grown
                 THEN JSMul(JSAdd(run.dcaValue, customMonthly),
                            JSAdd(Num(1, 1), DCAMonthlyReturn))
                 ELSE run.dcaValue
      lumpNext == run.lumpSumValue
  IN [dcaValue |-> dcaNext,
      lumpSumValue |-> lumpNext,
      data |-> Append(run.data, DCAPoint(month, dcaNext, lumpNext))]

\* DCAStep feeding the rounded values back into the next pass
DCAStep_RoundedFeedback(run, month) ==
  LET grown == month > 0
      dcaNext == IF grown
                 THEN MathRound(JSMul(JSAdd(run.dcaValue, customMonthly),
                                      JSAdd(Num(1, 1), DCAMonthlyReturn)))
                 ELSE run.dcaValue
      lumpNext == IF grown
                  THEN MathRound(JSMul(run.lumpSumValue,
                                       JSAdd(Num(1, 1), DCAMonthlyReturn)))
                  ELSE run.lumpSumValue
  IN [dcaValue |-> dcaNext,
      lumpSumValue |-> lumpNext,
      data |-> Append(run.data, DCAPoint(month, dcaNext, lumpNext))]

\* one pass of the loop body of generateDCAData, for `month`, on the two
\* running values and the points pushed so far
DCAStep(run, month) ==
  LET grown == month > 0
      dcaNext == IF grown
                 THEN JSMul(JSAdd(run.dcaValue, customMonthly),
                            JSAdd(Num(1, 1), DCAMonthlyReturn))
                 ELSE run.dcaValue
      lumpNext == IF grown
                  THEN JSMul(run.lumpSumValue, JSAdd(Num(1, 1), DCAMonthlyReturn))
                  ELSE run.lumpSumValue
  IN [dcaValue |-> dcaNext,
      lumpSumValue |-> lumpNext,
      data |-> Append(run.data, DCAPoint(month, dcaNext, lumpNext))]

\* the passes of the loop for the months lo..hi in order, after `run`
RECURSIVE DCALoop(_, _, _)
DCALoop(run, lo, hi) ==
  IF lo > hi THEN run
  ELSE IF lo = hi THEN DCAStep(run, lo)
  ELSE LET mid == (lo + hi) \div 2
           first == DCALoop(run, lo, mid)
       IN IF Len(first.data) > 0 THEN DCALoop(first, mid + 1, hi) ELSE first

\* generateDCAData investing a single month's amount as the lump sum
generateDCAData_LumpOfOneMonth ==
  LET last == IF IsFinite(ToNumber(DCAMonths)) /\ ~ToNumber(DCAMonths).neg
              THEN NatOf(MathFloor(DCAMonths)) ELSE -1
  IN DCALoop([dcaValue |-> Num(0, 1),
              lumpSumValue |-> customMonthly,
              data |-> << >>], 0, last).data

\* generateDCAData: dcaValue starts at 0, lumpSumValue at customMonthly *
\* months, and month runs from 0 while month <= months
generateDCAData ==
  LET last == IF IsFinite(ToNumber(DCAMonths)) /\ ~ToNumber(DCAMonths).neg
              THEN NatOf(MathFloor(DCAMonths)) ELSE -1
  IN DCALoop([dcaValue |-> Num(0, 1),
              lumpSumValue |-> JSMul(customMonthly, DCAMonths),
              data |-> << >>], 0, last).data

\* array[index] of a non-empty array, for an index within it
At(array, index) == Head(SubSeq(array, index, index))

chartData == generateDCAData
\* chartData[chartData.length - 1]
LastPoint == LET data == chartData IN At(data, Len(data))
finalDCA == LastPoint.dca
finalLumpSum == LastPoint.lumpSum
DCATotalContributions == JSMul(customMonthly, DCAMonths)

(***************************************************************************)
(* components/HistoricalBacktest: generateHistoricalData.                  *)
(***************************************************************************)
\* investments.reduce((sum, inv) => sum + inv.expectedReturn * inv.allocation / 100, 0)
\* over the first n investments
RECURSIVE ReduceReturns(_, _)
ReduceReturns(investments, n) ==
  IF n = 0 THEN Num(0, 1)
  ELSE JSAdd(ReduceReturns(investments, n - 1),
             JSDiv(JSMul(investments[n].expectedReturn,
                         Num(investments[n].allocation, 1)),
                   Num(100, 1)))

avgReturn(investments) == ReduceReturns(investments, Len(investments))

\* volatility looking for a medium instrument before a high one
volatility_MediumFirst(investments) ==
  IF \E i \in 1..Len(investments) : investments[i].riskLevel = "medium" THEN Num(10, 100)
  ELSE IF \E i \in 1..Len(investments) : investments[i].riskLevel = "high" THEN Num(15, 100)
  ELSE Num(6, 100)

\* investments.some(high) ? 0.15 : investments.some(medium) ? 0.10 : 0.06
volatility(investments) ==
  IF \E i \in 1..Len(investments) : investments[i].riskLevel = "high" THEN Num(15, 100)
  ELSE IF \E i \in 1..Len(investments) : investments[i].riskLevel = "medium" THEN Num(10, 100)
  ELSE Num(6, 100)

\* BacktestMonthlyReturn with the noise of a whole year in every month
BacktestMonthlyReturn_AnnualNoise(average, vol, random) ==
  JSAdd(JSDiv(JSDiv(average, Num(100, 1)), Num(12, 1)),
        JSMul(JSSub(random, Num(5, 10)), vol))

\* (avgReturn / 100 / 12) + (Math.random() - 0.5) * volatility / 12
BacktestMonthlyReturn(average, vol, random) ==
  JSAdd(JSDiv(JSDiv(average, Num(100, 1)), Num(12, 1)),
        JSDiv(JSMul(JSSub(random, Num(5, 10)), vol), Num(12, 1)))

\* the state of a call of generateHistoricalData before its loop
BacktestStart(investments, monthlyAmount, timeRange, stream) ==
  [investments |-> investments,
   monthlyAmount |-> monthlyAmount,
   timeRange |-> timeRange,
   stream |-> stream,
   months |-> (timeRange[2] - timeRange[1]) * 12,
   avgReturn |-> avgReturn(investments),
   volatility |-> volatility(investments),
   month |-> 0,
   portfolioValue |-> Num(0, 1),
   totalContributions |-> Num(0, 1),
   monthlyReturn |-> Undefined,
   data |-> << >>]

\* the value Math.random() returns in the pass for `month` (1, 2, ...)
DrawOf(stream, month) == stream[((month - 1) % Len(stream)) + 1]

\* one pass of the loop of generateHistoricalData
BacktestPass(b) ==
  LET grown == b.month > 0
      contributed == IF grown THEN JSAdd(b.totalContributions, b.monthlyAmount)
                     ELSE b.totalContributions
      monthlyReturn == IF grown
                       THEN BacktestMonthlyReturn(b.avgReturn, b.volatility,
                                                  DrawOf(b.stream, b.month))
                       ELSE b.monthlyReturn
      value == IF grown
               THEN JSMul(JSAdd(b.portfolioValue, b.monthlyAmount),
                          JSAdd(Num(1, 1), monthlyReturn))
               ELSE b.portfolioValue
      point == [year |-> b.timeRange[1] + (b.month \div 12),
                monthInYear |-> b.month % 12,
                value |-> MathRound(value),
                contributions |-> contributed,
                gains |-> MathRound(JSSub(value, contributed))]
  IN [b EXCEPT !.month = b.month + 1,
               !.portfolioValue = value,
               !.totalContributions = contributed,
               !.monthlyReturn = monthlyReturn,
               !.data = Append(b.data, point)]

(***************************************************************************)
(* The per-instrument monthly amounts: PortfolioRecommendation, the CSV    *)
(* export and components/PortfolioHeatmap.                                 *)
(***************************************************************************)
\* Math.round((monthlyAmount * investment.allocation) / 100)
InstrumentAmount(monthlyAmount, investment) ==
  MathRound(JSDiv(JSMul(monthlyAmount, Num(investment.allocation, 1)), Num(100, 1)))

\* the amounts under the allocations of the recommendation, one per instrument
recommendationAmounts(portfolio) ==
  [i \in 1..Len(portfolio.investments) |->
     InstrumentAmount(portfolio.monthlyAmount, portfolio.investments[i])]

\* the Monthly Amount column of the rows generateCSV writes
csvAmounts(portfolio) ==
  [i \in 1..Len(portfolio.investments) |->
     InstrumentAmount(portfolio.monthlyAmount, portfolio.investments[i])]

sectorMappings ==
  [x \in {"VOO", "VTI", "AAPL", "MSFT", "BND", "QQQ"} |->
     CASE x = "VOO"  -> "Diversified"
       [] x = "VTI"  -> "Diversified"
       [] x = "AAPL" -> "Technology"
       [] x = "MSFT" -> "Technology"
       [] x = "BND"  -> "Bonds"
       [] x = "QQQ"  -> "Technology"]

\* sectorMappings[investment.symbol] || 'Other'
SectorOf(investment) ==
  IF investment.symbol \in DOMAIN sectorMappings
  THEN sectorMappings[investment.symbol] ELSE "Other"

\* investments.map(...): one entry per instrument
allocationData(investments, monthlyAmount) ==
  [i \in 1..Len(investments) |->
     [name |-> investments[i].symbol,
      value |-> investments[i].allocation,
      amount |-> InstrumentAmount(monthlyAmount, investments[i])]]

\* investments.reduce(...) over the first n instruments, where names[i] is
\* the group of instrument i: the first entry of that name is added to, or
\* a new entry is pushed
RECURSIVE ReduceGroups(_, _, _, _)
ReduceGroups(investments, monthlyAmount, names, n) ==
  IF n = 0 THEN << >>
  ELSE LET acc == ReduceGroups(investments, monthlyAmount, names, n - 1)
           amount == InstrumentAmount(monthlyAmount, investments[n])
           found == {i \in 1..Len(acc) : acc[i].name = names[n]}
       IN IF found # {}
          THEN LET existing == CHOOSE i \in found : \A j \in found : i <= j
               IN [acc EXCEPT ![existing].value = @ + investments[n].allocation,
                              ![existing].amount = JSAdd(@, amount)]
          ELSE Append(acc, [name |-> names[n],
                            value |-> investments[n].allocation,
                            amount |-> amount])

sectorData(investments, monthlyAmount) ==
  ReduceGroups(investments, monthlyAmount,
               [i \in 1..Len(investments) |-> SectorOf(investments[i])],
               Len(investments))

riskData(investments, monthlyAmount) ==
  ReduceGroups(investments, monthlyAmount,
               [i \in 1..Len(investments) |-> investments[i].riskLevel],
               Len(investments))

(***************************************************************************)
(* The migration: row-level security on portfolios and investment_goals.   *)
(***************************************************************************)
\* the users of auth.users, and what auth.uid() is for a caller: the user,
\* or NULL for a caller that is not signed in
Users == {"alice", "bob"}
SqlNull == "NULL"
Callers == Users \cup {SqlNull}

\* the policies of the two tables; every one of them has the expression
\* auth.uid() = user_id, as USING or as WITH CHECK
Policies ==
  {[table |-> "portfolios",       cmd |-> "SELECT", using |-> TRUE,  check |-> FALSE],
   [table |-> "portfolios",       cmd |-> "INSERT", using |-> FALSE, check |-> TRUE],
   [table |-> "portfolios",       cmd |-> "UPDATE", using |-> TRUE,  check |-> FALSE],
   [table |-> "portfolios",       cmd |-> "DELETE", using |-> TRUE,  check |-> FALSE],
   [table |-> "investment_goals", cmd |-> "SELECT", using |-> TRUE,  check |-> FALSE],
   [table |-> "investment_goals", cmd |-> "INSERT", using |-> FALSE, check |-> TRUE],
   [table |-> "investment_goals", cmd |-> "UPDATE", using |-> TRUE,  check |-> FALSE],
   [table |-> "investment_goals", cmd |-> "DELETE", using |-> TRUE,  check |-> FALSE]}

\* auth.uid() = user_id in SQL's three-valued logic: "true", "false" or "null"
OwnRow(uid, row) ==
  IF uid = SqlNull THEN "null" ELSE IF uid = row.user_id THEN "true" ELSE "false"

\* With row-level security enabled a row passes for a command when some
\* policy of the table for that command has a USING expression that is true.
PassesUsing(table, cmd, uid, row) ==
  \E p \in Policies :
    p.table = table /\ p.cmd = cmd /\ p.using /\ OwnRow(uid, row) = "true"

\* PassesCheck with no check on the new row of an UPDATE
PassesCheck_UpdateUnchecked(table, cmd, uid, row) ==
  \E p \in Policies :
    /\ p.table = table /\ p.cmd = cmd
    /\ IF p.check THEN OwnRow(uid, row) = "true" ELSE TRUE

\* A new row passes when some policy of the table for the command has a
\* WITH CHECK expression that is true; a policy with USING alone applies its
\* USING expression to the new row as well.
PassesCheck(table, cmd, uid, row) ==
  \E p \in Policies :
    /\ p.table = table /\ p.cmd = cmd
    /\ IF p.check \/ p.using THEN OwnRow(uid, row) = "true" ELSE FALSE

(***************************************************************************)
(* The inputs of the model.                                                *)
(***************************************************************************)
\* The budget field has min 10 and step 5 and is read with parseFloat:
\* the budgets the field steps through, and others a float can be.
MaxBudgetSteps == 8
FormBudgets == {Num(10 + 5 * k, 1) : k \in 0..MaxBudgetSteps}
OtherBudgets == {Num(0, 1), Num(1, 10), Num(5, 10), Num(501, 10), Num(100, 1)}
Budgets == FormBudgets \cup OtherBudgets

\* the three levels of the form and two values outside them
RiskTolerances == {"low", "medium", "high", "aggressive", ""}

HorizonLabels == {"3-months", "6-months", "1-year", "2-years", "5-years"}
\* the labels of the form, two unknown labels and a name objects inherit
TimeHorizons == HorizonLabels \cup {"", "10-years", "toString"}

UserDataInputs ==
  [monthlyBudget : Budgets, riskTolerance : RiskTolerances,
   investmentGoal : {"emergency"}, timeHorizon : TimeHorizons]

\* the operands of the projection formula taken alone
ProjectionContributions == {Num(0, 1), Num(25, 1), Num(100, 1), Num(250, 1)}
ProjectionReturns == {Num(0, 1), Num(78, 10), Num(98, 10), Num(105, 10), Num(121, 10)}
ProjectionMonths == {Num(0, 1), Num(1, 1), Num(3, 1), Num(6, 1), Num(12, 1),
                     Num(24, 1), Num(60, 1)}

\* the props of a GoalTracker and the amounts typed into its target field
GoalProjectedValues == {Num(0, 1), Num(628, 1), Num(2000, 1), Num(3851, 1)}
GoalTimeframes == HorizonLabels \cup {""}
GoalReturns == {Num(0, 1), Num(98, 10), Num(121, 10)}
GoalTrackerProps ==
  [projectedValue : GoalProjectedValues, monthlyAmount : {Num(50, 1)},
   timeframe : GoalTimeframes, expectedReturn : GoalReturns]
MaxGoalThousands == 2
GoalAmountInputs ==
  {Num(1000 * k, 1) : k \in 0..MaxGoalThousands} \cup {Num(2001, 1), Num(40005, 10)}
GoalDescriptionInputs == {"Vacation"}

GoalTrackerInitialState ==
  /\ goalAmount = Num(2000, 1)
  /\ goalDescription = "Emergency Fund"
  /\ showRecommendations = FALSE

\* the props of a DCASimulator and the amounts typed into its field
DCAReturns == {Num(0, 1), Num(78, 10), Num(121, 10)}
DCASimulatorProps ==
  [monthlyAmount : {Num(50, 1)}, timeframe : GoalTimeframes, expectedReturn : DCAReturns]
MaxCustomHundreds == 1
CustomMonthlyInputs ==
  {Num(100 * k, 1) : k \in 0..MaxCustomHundreds}
    \cup {Num(25, 1), Num(1005, 10), BigNum(TRUE, BigFromNat(10), BigOne)}

\* no DCASimulator is mounted
DCASimulatorUnmounted ==
  /\ customMonthly = Null
  /\ showComparison = FALSE

\* the year new Date().getFullYear() returns
CurrentYear == 2026

\* What Math.random() can return, and the streams of its successive values:
\* every sequence of at most MaxDrawPeriod draws, repeated without end.
RandomDraws == {Num(0, 1), Num(999, 1000)}
MaxDrawPeriod == 2
RandomStreams == UNION {[1..n -> RandomDraws] : n \in 1..MaxDrawPeriod}

\* the props of a HistoricalBacktest: the investments of the four templates
BacktestPortfolios ==
  {SelectTemplate(r).selectedInvestments : r \in {"low", "medium", "high", ""}}
BacktestAmounts == {Num(0, 1), Num(50, 1)}
\* the ranges the slider is moved to
TimeRangeInputs == {<<CurrentYear, CurrentYear>>, <<CurrentYear - 1, CurrentYear>>}

\* no HistoricalBacktest is mounted
BacktestUnmounted == backtest = Null

\* the two tables, with no row, and no statement run
TableNames == {"portfolios", "investment_goals"}
DatabaseUnused ==
  /\ tables = [t \in TableNames |-> {}]
  /\ lastOp = [caller |-> "none", read |-> {}]

\* the primary keys a statement can name
MaxRowId == 2
RowIds == 1..MaxRowId
\* the rows an INSERT names, and the value an UPDATE sets the other column to
NewRows == [id : RowIds, user_id : Users, data : {"x"}]
UpdatedData == {"y"}
\* the rows a WHERE clause selects by key: one row (WHERE id = ...) or all
WhereClauses == {{id} : id \in RowIds} \cup {RowIds}

\* no PDFExport is mounted
PDFExportUnmounted ==
  /\ isGenerating = FALSE
  /\ exportLog = << >>

\* the props of a PDFExport: a recommendation of the engine and the two
\* fields of the form it was computed from
ExportData ==
  [monthlyBudget : {Num(10, 1), Num(50, 1), Num(105, 1)},
   riskTolerance : {"low", "medium", "high"},
   investmentGoal : {"emergency"}, timeHorizon : {"1-year", "5-years"}]
PDFExportProps ==
  {[portfolio |-> generatePortfolioRecommendation(d),
    riskTolerance |-> d.riskTolerance,
    investmentGoal |-> d.investmentGoal] : d \in ExportData}
\* the clicks on Download PDF the model follows
MaxExports == 2

\* the data a valid form submits
WizardSubmissions ==
  [monthlyBudget : {Num(50, 1), Num(100, 1)}, riskTolerance : {"low", "high"},
   investmentGoal : {"emergency"}, timeHorizon : {"1-year"}]

\* no Index page is mounted
IndexUnmounted ==
  /\ step = "welcome"
  /\ isLoading = FALSE
  /\ formData = Null
  /\ pending = << >>

(***************************************************************************)
(* SpecEngine: one call of generatePortfolioRecommendation on any input.   *)
(***************************************************************************)
InitEngine ==
  /\ pc = "call"
  /\ userData \in UserDataInputs
  /\ portfolioData = Null
  /\ projection = Null
  /\ props = Null
  /\ GoalTrackerInitialState
  /\ DCASimulatorUnmounted
  /\ BacktestUnmounted
  /\ IndexUnmounted
  /\ PDFExportUnmounted
  /\ DatabaseUnused

Generate ==
  /\ pc = "call"
  /\ portfolioData' = generatePortfolioRecommendation(userData)
  /\ pc' = "done"
  /\ UNCHANGED <<userData, projection, goalVars, dcaVars, backtest, wizardVars, exportVars, dbVars>>

NextEngine == Generate

SpecEngine == InitEngine /\ [][NextEngine]_vars

(***************************************************************************)
(* SpecProjection: the projection formula of the engine on its own         *)
(* operands (contribution, annual return in percent, months).              *)
(***************************************************************************)
InitProjection ==
  /\ pc = "formula"
  /\ projection \in [monthlyContribution : ProjectionContributions,
                      totalExpectedReturn : ProjectionReturns,
                      totalMonths : ProjectionMonths,
                      projectedValue : {Undefined}]
  /\ userData = Null
  /\ portfolioData = Null
  /\ props = Null
  /\ GoalTrackerInitialState
  /\ DCASimulatorUnmounted
  /\ BacktestUnmounted
  /\ IndexUnmounted
  /\ PDFExportUnmounted
  /\ DatabaseUnused

Project ==
  /\ pc = "formula"
  /\ projection' =
       [projection EXCEPT !.projectedValue =
          MathRound(FutureValueOfAnnuity(projection.monthlyContribution,
                                         projection.totalExpectedReturn,
                                         projection.totalMonths))]
  /\ pc' = "projected"
  /\ UNCHANGED <<engineVars, goalVars, dcaVars, backtest, wizardVars, exportVars, dbVars>>

NextProjection == Project

SpecProjection == InitProjection /\ [][NextProjection]_vars

(***************************************************************************)
(* SpecGoalTracker: a mounted GoalTracker and the user's edits.            *)
(***************************************************************************)
InitGoalTracker ==
  /\ pc = "mounted"
  /\ props \in GoalTrackerProps
  /\ GoalTrackerInitialState
  /\ userData = Null
  /\ portfolioData = Null
  /\ projection = Null
  /\ DCASimulatorUnmounted
  /\ BacktestUnmounted
  /\ IndexUnmounted
  /\ PDFExportUnmounted
  /\ DatabaseUnused

\* onChange of the target amount: setGoalAmount(Number(e.target.value))
SetGoalAmount(v) ==
  /\ pc = "mounted"
  /\ goalAmount' = v
  /\ UNCHANGED <<pc, engineVars, projection, props, goalDescription, showRecommendations, dcaVars, backtest, wizardVars, exportVars, dbVars>>

\* onChange of the description
SetGoalDescription(text) ==
  /\ pc = "mounted"
  /\ goalDescription' = text
  /\ UNCHANGED <<pc, engineVars, projection, props, goalAmount, showRecommendations, dcaVars, backtest, wizardVars, exportVars, dbVars>>

\* a click on one of the common goals
SelectCommonGoal(i) ==
  /\ pc = "mounted"
  /\ goalDescription' = commonGoals[i].name
  /\ goalAmount' = commonGoals[i].amount
  /\ UNCHANGED <<pc, engineVars, projection, props, showRecommendations, dcaVars, backtest, wizardVars, exportVars, dbVars>>

\* the Show / Hide Goal Scenarios button
ToggleScenarios ==
  /\ pc = "mounted"
  /\ showRecommendations' = ~showRecommendations
  /\ UNCHANGED <<pc, engineVars, projection, props, goalAmount, goalDescription, dcaVars, backtest, wizardVars, exportVars, dbVars>>

NextGoalTracker ==
  \/ \E v \in GoalAmountInputs : SetGoalAmount(v)
  \/ \E text \in GoalDescriptionInputs : SetGoalDescription(text)
  \/ \E i \in 1..Len(commonGoals) : SelectCommonGoal(i)
  \/ ToggleScenarios

SpecGoalTracker == InitGoalTracker /\ [][NextGoalTracker]_vars

(***************************************************************************)
(* SpecDCA: a mounted DCASimulator and the user's edits.                   *)
(***************************************************************************)
InitDCA ==
  /\ pc = "simulator"
  /\ props \in DCASimulatorProps
  /\ customMonthly = props.monthlyAmount
  /\ showComparison = FALSE
  /\ userData = Null
  /\ portfolioData = Null
  /\ projection = Null
  /\ GoalTrackerInitialState
  /\ BacktestUnmounted
  /\ IndexUnmounted
  /\ PDFExportUnmounted
  /\ DatabaseUnused

\* onChange of the amount: setCustomMonthly(Number(e.target.value))
SetCustomMonthly(v) ==
  /\ pc = "simulator"
  /\ customMonthly' = v
  /\ UNCHANGED <<pc, engineVars, projection, goalVars, showComparison, backtest, wizardVars, exportVars, dbVars>>

\* the Show / Hide Comparison button
ToggleComparison ==
  /\ pc = "simulator"
  /\ showComparison' = ~showComparison
  /\ UNCHANGED <<pc, engineVars, projection, goalVars, customMonthly, backtest, wizardVars, exportVars, dbVars>>

NextDCA ==
  \/ \E v \in CustomMonthlyInputs : SetCustomMonthly(v)
  \/ ToggleComparison

SpecDCA == InitDCA /\ [][NextDCA]_vars

(***************************************************************************)
(* SpecBacktest: a mounted HistoricalBacktest generating its data, one     *)
(* pass of the loop at a time, and the user moving the range slider.       *)
(***************************************************************************)
InitBacktest ==
  /\ pc = "history"
  /\ \E investments \in BacktestPortfolios, monthlyAmount \in BacktestAmounts,
        stream \in RandomStreams :
       backtest = BacktestStart(investments, monthlyAmount,
                                <<CurrentYear - 3, CurrentYear>>, stream)
  /\ userData = Null
  /\ portfolioData = Null
  /\ projection = Null
  /\ props = Null
  /\ GoalTrackerInitialState
  /\ DCASimulatorUnmounted
  /\ IndexUnmounted
  /\ PDFExportUnmounted
  /\ DatabaseUnused

\* a pass of the loop for month <= months; the data is returned after the last
GenerateMonth ==
  /\ pc = "history"
  /\ backtest.month <= backtest.months
  /\ backtest' = BacktestPass(backtest)
  /\ pc' = IF backtest.month = backtest.months THEN "charted" ELSE "history"
  /\ UNCHANGED <<engineVars, projection, goalVars, dcaVars, wizardVars, exportVars, dbVars>>

\* onValueChange of the slider: setTimeRange, then a render that generates
\* the data again with new draws
SetTimeRange(timeRange, stream) ==
  /\ pc = "charted"
  /\ backtest' = BacktestStart(backtest.investments, backtest.monthlyAmount,
                               timeRange, stream)
  /\ pc' = "history"
  /\ UNCHANGED <<engineVars, projection, goalVars, dcaVars, wizardVars, exportVars, dbVars>>

NextBacktest ==
  \/ GenerateMonth
  \/ \E timeRange \in TimeRangeInputs, stream \in RandomStreams :
       SetTimeRange(timeRange, stream)

SpecBacktest == InitBacktest /\ [][NextBacktest]_vars

(***************************************************************************)
(* SpecWizard: the Index page.  pc is "idle" between events; after the     *)
(* timer of a submission fires, pc walks through the rest of               *)
(* handleFormSubmit, which runs to its end before any other event.         *)
(***************************************************************************)
InitWizard ==
  /\ pc = "idle"
  /\ step = "welcome"
  /\ isLoading = FALSE
  /\ portfolioData = Null
  /\ formData = Null
  /\ pending = << >>
  /\ userData = Null
  /\ projection = Null
  /\ props = Null
  /\ GoalTrackerInitialState
  /\ DCASimulatorUnmounted
  /\ BacktestUnmounted
  /\ PDFExportUnmounted
  /\ DatabaseUnused

\* the Get Started button of the welcome page
GetStarted ==
  /\ pc = "idle"
  /\ step = "welcome"
  /\ step' = "form"
  /\ UNCHANGED <<pc, engineVars, projection, goalVars, dcaVars, backtest,
                 isLoading, formData, pending, exportVars, dbVars>>

\* BackToHome that also drops the pending submission
BackToHome_CancelsPending ==
  /\ pc = "idle"
  /\ step = "form"
  /\ step' = "welcome"
  /\ pending' = << >>
  /\ isLoading' = FALSE
  /\ UNCHANGED <<pc, engineVars, projection, goalVars, dcaVars, backtest,
                 formData, exportVars, dbVars>>

\* the Back to Home button of the form page
BackToHome ==
  /\ pc = "idle"
  /\ step = "form"
  /\ step' = "welcome"
  /\ UNCHANGED <<pc, engineVars, projection, goalVars, dcaVars, backtest,
                 isLoading, formData, pending, exportVars, dbVars>>

\* Submit_WithoutLoading: the submission without setIsLoading(true)
Submit_WithoutLoading(data) ==
  /\ pc = "idle"
  /\ step = "form"
  /\ ~isLoading
  /\ pending' = Append(pending, data)
  /\ UNCHANGED <<pc, engineVars, projection, goalVars, dcaVars, backtest,
                 step, isLoading, formData, exportVars, dbVars>>

\* The submit button of the form (disabled while isLoading) with valid
\* fields: handleFormSubmit up to its await, setIsLoading(true) and the
\* start of the two-second timer.
Submit(data) ==
  /\ pc = "idle"
  /\ step = "form"
  /\ ~isLoading
  /\ isLoading' = TRUE
  /\ pending' = Append(pending, data)
  /\ UNCHANGED <<pc, engineVars, projection, goalVars, dcaVars, backtest,
                 step, formData, exportVars, dbVars>>

\* the timer of the oldest pending call fires and the call resumes
TimerFires ==
  /\ pc = "idle"
  /\ pending # << >>
  /\ pc' = "resumed"
  /\ UNCHANGED <<engineVars, projection, goalVars, dcaVars, backtest, wizardVars, exportVars, dbVars>>

\* recommendation = generatePortfolioRecommendation(data); setPortfolioData(recommendation)
SetPortfolioData ==
  /\ pc = "resumed"
  /\ portfolioData' = generatePortfolioRecommendation(Head(pending))
  /\ pc' = "setFormData"
  /\ UNCHANGED <<userData, projection, goalVars, dcaVars, backtest, wizardVars, exportVars, dbVars>>

\* setFormData(data)
SetFormData ==
  /\ pc = "setFormData"
  /\ formData' = Head(pending)
  /\ pc' = "setIsLoading"
  /\ UNCHANGED <<engineVars, projection, goalVars, dcaVars, backtest,
                 step, isLoading, pending, exportVars, dbVars>>

\* setIsLoading(false)
ClearLoading ==
  /\ pc = "setIsLoading"
  /\ isLoading' = FALSE
  /\ pc' = "setStep"
  /\ UNCHANGED <<engineVars, projection, goalVars, dcaVars, backtest,
                 step, formData, pending, exportVars, dbVars>>

\* setStep("results"), the end of the call
SetStepResults ==
  /\ pc = "setStep"
  /\ step' = "results"
  /\ pending' = Tail(pending)
  /\ pc' = "idle"
  /\ UNCHANGED <<engineVars, projection, goalVars, dcaVars, backtest,
                 isLoading, formData, exportVars, dbVars>>

\* the Modify Profile button of the results page
ModifyProfile ==
  /\ pc = "idle"
  /\ step = "results"
  /\ step' = "form"
  /\ UNCHANGED <<pc, engineVars, projection, goalVars, dcaVars, backtest,
                 isLoading, formData, pending, exportVars, dbVars>>

\* StartOver without setFormData(null)
StartOver_KeepsFormData ==
  /\ pc = "idle"
  /\ step = "results"
  /\ step' = "welcome"
  /\ portfolioData' = Null
  /\ UNCHANGED <<pc, userData, projection, goalVars, dcaVars, backtest,
                 isLoading, formData, pending, exportVars, dbVars>>

\* handleStartOver, the Start Over button of the results page
StartOver ==
  /\ pc = "idle"
  /\ step = "results"
  /\ step' = "welcome"
  /\ portfolioData' = Null
  /\ formData' = Null
  /\ UNCHANGED <<pc, userData, projection, goalVars, dcaVars, backtest,
                 isLoading, pending, exportVars, dbVars>>

NextWizard ==
  \/ GetStarted
  \/ BackToHome
  \/ \E data \in WizardSubmissions : Submit(data)
  \/ TimerFires
  \/ SetPortfolioData
  \/ SetFormData
  \/ ClearLoading
  \/ SetStepResults
  \/ ModifyProfile
  \/ StartOver

SpecWizard == InitWizard /\ [][NextWizard]_vars

\* The wizard with its scheduling: a timer that was started fires after its
\* two seconds, and the resumed call runs each of its statements to the end.
\* SetPortfolioData is enabled exactly when pc = "resumed", and its weak
\* fairness is written out with that state predicate.
SpecWizardFair ==
  /\ InitWizard
  /\ [][NextWizard]_vars
  /\ WF_vars(TimerFires)
  /\ ([]<>(pc # "resumed") \/ []<><<SetPortfolioData>>_vars)
  /\ WF_vars(SetFormData)
  /\ WF_vars(ClearLoading)
  /\ WF_vars(SetStepResults)

(***************************************************************************)
(* SpecExport: a mounted PDFExport.  generatePDF has no await: a click     *)
(* runs it to its end, pc walking through its try, catch and finally.      *)
(***************************************************************************)
InitExport ==
  /\ pc = "export"
  /\ props \in PDFExportProps
  /\ isGenerating = FALSE
  /\ exportLog = << >>
  /\ userData = Null
  /\ portfolioData = Null
  /\ projection = Null
  /\ GoalTrackerInitialState
  /\ DCASimulatorUnmounted
  /\ BacktestUnmounted
  /\ IndexUnmounted
  /\ DatabaseUnused

\* the Download PDF button (disabled while isGenerating): setIsGenerating(true)
ClickDownloadPDF ==
  /\ pc = "export"
  /\ ~isGenerating
  /\ Len(exportLog) < MaxExports
  /\ isGenerating' = TRUE
  /\ pc' = "try"
  /\ UNCHANGED <<engineVars, projection, goalVars, dcaVars, backtest, wizardVars,
                 exportLog, dbVars>>

\* the try block runs to pdf.save
SavePDF ==
  /\ pc = "try"
  /\ exportLog' = Append(exportLog, "saved")
  /\ pc' = "finally"
  /\ UNCHANGED <<engineVars, projection, goalVars, dcaVars, backtest, wizardVars,
                 isGenerating, dbVars>>

\* a call of the try block throws: console.error and alert
CatchError ==
  /\ pc = "try"
  /\ exportLog' = Append(exportLog, "alert")
  /\ pc' = "finally"
  /\ UNCHANGED <<engineVars, projection, goalVars, dcaVars, backtest, wizardVars,
                 isGenerating, dbVars>>

\* FinallyClear on the success path only
FinallyClear_OnSuccessOnly ==
  /\ pc = "finally"
  /\ isGenerating' = (exportLog[Len(exportLog)] = "alert")
  /\ pc' = "export"
  /\ UNCHANGED <<engineVars, projection, goalVars, dcaVars, backtest, wizardVars,
                 exportLog, dbVars>>

\* finally: setIsGenerating(false)
FinallyClear ==
  /\ pc = "finally"
  /\ isGenerating' = FALSE
  /\ pc' = "export"
  /\ UNCHANGED <<engineVars, projection, goalVars, dcaVars, backtest, wizardVars,
                 exportLog, dbVars>>

NextExport ==
  \/ ClickDownloadPDF
  \/ SavePDF
  \/ CatchError
  \/ FinallyClear

SpecExport == InitExport /\ [][NextExport]_vars

(***************************************************************************)
(* SpecDatabase: statements of any caller on the two tables under their    *)
(* policies.                                                               *)
(***************************************************************************)
InitDatabase ==
  /\ pc = "database"
  /\ tables = [t \in TableNames |-> {}]
  /\ lastOp = [caller |-> "none", read |-> {}]
  /\ userData = Null
  /\ portfolioData = Null
  /\ projection = Null
  /\ props = Null
  /\ GoalTrackerInitialState
  /\ DCASimulatorUnmounted
  /\ BacktestUnmounted
  /\ IndexUnmounted
  /\ PDFExportUnmounted

\* SELECT * FROM table: the rows that pass the SELECT policies
SelectRows(caller, table) ==
  /\ pc = "database"
  /\ lastOp' = [caller |-> caller,
                read |-> {r \in tables[table] : PassesUsing(table, "SELECT", caller, r)}]
  /\ UNCHANGED <<pc, engineVars, projection, goalVars, dcaVars, backtest, wizardVars,
                 exportVars, tables>>

\* INSERT INTO table VALUES row: an error if the key exists or the row
\* fails the check
InsertRow(caller, table, row) ==
  /\ pc = "database"
  /\ \A r \in tables[table] : r.id # row.id
  /\ PassesCheck(table, "INSERT", caller, row)
  /\ tables' = [tables EXCEPT ![table] = @ \cup {row}]
  /\ lastOp' = [caller |-> caller, read |-> {}]
  /\ UNCHANGED <<pc, engineVars, projection, goalVars, dcaVars, backtest, wizardVars,
                 exportVars>>

\* UPDATE table SET user_id = user, data = data WHERE id IN ids: the rows
\* that pass USING are updated, the others skipped; an error if a new row
\* fails the check
UpdateRows(caller, table, ids, user, data) ==
  LET hit == {r \in tables[table] :
                r.id \in ids /\ PassesUsing(table, "UPDATE", caller, r)}
      new == {[r EXCEPT !.user_id = user, !.data = data] : r \in hit}
  IN /\ pc = "database"
     /\ \A r \in new : PassesCheck(table, "UPDATE", caller, r)
     /\ tables' = [tables EXCEPT ![table] = (@ \ hit) \cup new]
     /\ lastOp' = [caller |-> caller, read |-> {}]
     /\ UNCHANGED <<pc, engineVars, projection, goalVars, dcaVars, backtest, wizardVars,
                    exportVars>>

\* DELETE FROM table WHERE id IN ids: the rows that pass USING are deleted
DeleteRows(caller, table, ids) ==
  LET hit == {r \in tables[table] :
                r.id \in ids /\ PassesUsing(table, "DELETE", caller, r)}
  IN /\ pc = "database"
     /\ tables' = [tables EXCEPT ![table] = @ \ hit]
     /\ lastOp' = [caller |-> caller, read |-> {}]
     /\ UNCHANGED <<pc, engineVars, projection, goalVars, dcaVars, backtest, wizardVars,
                    exportVars>>

NextDatabase ==
  \E caller \in Callers, table \in TableNames :
    \/ SelectRows(caller, table)
    \/ \E row \in NewRows : InsertRow(caller, table, row)
    \/ \E ids \in WhereClauses, user \in Users, data \in UpdatedData :
         UpdateRows(caller, table, ids, user, data)
    \/ \E ids \in WhereClauses : DeleteRows(caller, table, ids)

SpecDatabase == InitDatabase /\ [][NextDatabase]_vars

(***************************************************************************)
(* Properties of the engine, checked under SpecEngine.                     *)
(***************************************************************************)
RECURSIVE SumAllocation(_)
SumAllocation(investments) ==
  IF investments = <<>> THEN 0
  ELSE Head(investments).allocation + SumAllocation(Tail(investments))

Symbols(investments) == [i \in 1..Len(investments) |-> investments[i].symbol]
Allocations(investments) == [i \in 1..Len(investments) |-> investments[i].allocation]

\* C1: for every risk tolerance, the fallback of an unrecognized value
\* included, the allocations of the returned investments sum to exactly 100
\* and each allocation lies in 0..100.
C1_AllocationSumsTo100 ==
  pc = "done" =>
    /\ SumAllocation(portfolioData.investments) = 100
    /\ \A i \in 1..Len(portfolioData.investments) :
         /\ portfolioData.investments[i].allocation >= 0
         /\ portfolioData.investments[i].allocation <= 100

C1_Witness ==
  /\ pc = "done"
  /\ userData.riskTolerance = "high"
  /\ Allocations(portfolioData.investments) = <<40, 30, 20, 10>>

\* C2: the input {monthlyBudget: 50, riskTolerance: medium, timeHorizon:
\* 1-year} yields VOO 50 / AAPL 25 / MSFT 15 / BND 10 in that order,
\* totalExpectedReturn 9.8, riskScore 4 and projectedValue 628; for every
\* input monthlyAmount is the monthlyBudget and timeframe the timeHorizon.
C2_EndToEnd ==
  pc = "done" =>
    /\ portfolioData.monthlyAmount = userData.monthlyBudget
    /\ portfolioData.timeframe = userData.timeHorizon
    /\ ( /\ userData.monthlyBudget = Num(50, 1)
         /\ userData.riskTolerance = "medium"
         /\ userData.timeHorizon = "1-year" )
       => /\ Symbols(portfolioData.investments) = <<"VOO", "AAPL", "MSFT", "BND">>
          /\ Allocations(portfolioData.investments) = <<50, 25, 15, 10>>
          /\ NumEq(portfolioData.totalExpectedReturn, Num(98, 10))
          /\ portfolioData.riskScore = 4
          /\ portfolioData.projectedValue = Num(628, 1)
          /\ NumEq(portfolioData.monthlyAmount, Num(50, 1))
          /\ portfolioData.timeframe = "1-year"

C2_Witness ==
  /\ pc = "done"
  /\ userData.monthlyBudget = Num(50, 1)
  /\ userData.riskTolerance = "medium"
  /\ userData.timeHorizon = "1-year"
  /\ portfolioData.projectedValue = Num(628, 1)

\* [sum |-> 1 + x + ... + x^(n-1), pow |-> x^n], by halving n:
\* the sum of 2m terms is (1 + x^m) times the sum of m terms
RECURSIVE GeometricSeries(_, _)
GeometricSeries(x, n) ==
  IF n = 0 THEN [sum |-> Num(0, 1), pow |-> Num(1, 1)]
  ELSE IF n % 2 = 1
       THEN LET h == GeometricSeries(x, n - 1)
            IN [sum |-> JSAdd(JSMul(h.sum, x), Num(1, 1)), pow |-> JSMul(h.pow, x)]
       ELSE LET h == GeometricSeries(x, n \div 2)
            IN [sum |-> JSMul(h.sum, JSAdd(Num(1, 1), h.pow)),
                pow |-> JSMul(h.pow, h.pow)]

\* The value of n end-of-month payments of c at the monthly rate r, each
\* compounded for the months left after it: the sum of c * (1+r)^k, k < n.
OrdinaryAnnuity(c, r, n) == JSMul(c, GeometricSeries(JSAdd(Num(1, 1), r), n).sum)

\* the month count and the rate the engine uses for the call in progress
CallMonths == EngineTotalMonths(EngineTimeMultiplier(userData.timeHorizon))
CallReturn == SelectTemplate(userData.riskTolerance).totalExpectedReturn

\* C3: for every contribution c >= 0, every template rate and every horizon
\* of n months, projectedValue is the ordinary-annuity future value at
\* r = annualReturnPercent/100/12 rounded to the nearest integer, which is
\* a non-negative integer; c = 25 at 7.8% over 12 months gives 311.
C3_ProjectionIsAnnuity ==
  (pc = "done" /\ IsFinite(CallMonths)) =>
    /\ IsIntegral(portfolioData.projectedValue)
    /\ portfolioData.projectedValue =
         MathRound(OrdinaryAnnuity(userData.monthlyBudget,
                                   BigNum(FALSE, CallReturn.num,
                                          BigMul(CallReturn.den, BigFromNat(1200))),
                                   NatOf(CallMonths)))
    /\ ( /\ userData.monthlyBudget = Num(25, 1)
         /\ userData.riskTolerance = "low"
         /\ userData.timeHorizon = "1-year" )
       => IntOf(portfolioData.projectedValue) = 311

C3_Witness ==
  /\ pc = "done"
  /\ userData.monthlyBudget = Num(25, 1)
  /\ userData.riskTolerance = "low"
  /\ userData.timeHorizon = "1-year"
  /\ IntOf(portfolioData.projectedValue) = 311

\* the month count the specification gives for a horizon label
ClaimedMonths(label) ==
  CASE label = "3-months" -> 3
    [] label = "6-months" -> 6
    [] label = "1-year"   -> 12
    [] label = "2-years"  -> 24
    [] label = "5-years"  -> 60
    [] OTHER -> 12

IsMonthCount(x, n) == IsFinite(x) /\ NumEq(x, Num(n, 1))

\* C5: the horizon label maps to 3, 6, 12, 24, 60 months and every
\* unrecognized label to 12, and the engine (multiplier * 12), the
\* GoalTracker and the DCASimulator derive the same month count.
C5_HorizonMonths ==
  pc = "done" =>
    /\ IsMonthCount(CallMonths, ClaimedMonths(userData.timeHorizon))
    /\ IsMonthCount(GoalTrackerMonths(portfolioData.timeframe),
                    ClaimedMonths(userData.timeHorizon))
    /\ IsMonthCount(DCASimulatorMonths(portfolioData.timeframe),
                    ClaimedMonths(userData.timeHorizon))

PortfolioFields ==
  {"investments", "totalExpectedReturn", "riskScore", "monthlyAmount",
   "projectedValue", "timeframe"}
InvestmentFields == {"symbol", "allocation", "expectedReturn", "riskLevel"}

\* C6: no input is rejected; a riskTolerance outside {low, medium, high}
\* yields the single instrument VOO at allocation 100 with
\* totalExpectedReturn 10.5 and riskScore 3, in a result of the same shape
\* as that of a selected template.
C6_FallbackTemplate ==
  pc = "done" =>
    /\ DOMAIN portfolioData = PortfolioFields
    /\ Len(portfolioData.investments) >= 1
    /\ \A i \in 1..Len(portfolioData.investments) :
         DOMAIN portfolioData.investments[i] = InvestmentFields
    /\ portfolioData.riskScore \in Nat
    /\ IsFinite(portfolioData.totalExpectedReturn)
    /\ userData.riskTolerance \notin {"low", "medium", "high"}
       => /\ Symbols(portfolioData.investments) = <<"VOO">>
          /\ Allocations(portfolioData.investments) = <<100>>
          /\ NumEq(portfolioData.totalExpectedReturn, Num(105, 10))
          /\ portfolioData.riskScore = 3

C6_Witness ==
  /\ pc = "done"
  /\ userData.riskTolerance = "aggressive"
  /\ Symbols(portfolioData.investments) = <<"VOO">>
  /\ portfolioData.riskScore = 3

\* the projectedValue of the call in progress with another budget or label
ProjectedWithBudget(b) ==
  generatePortfolioRecommendation([userData EXCEPT !.monthlyBudget = b]).projectedValue
ProjectedWithHorizon(h) ==
  generatePortfolioRecommendation([userData EXCEPT !.timeHorizon = h]).projectedValue

\* C7 as claimed: for a fixed risk tolerance and horizon the rounded
\* projectedValue is strictly increasing in monthlyBudget, and for a fixed
\* budget > 0 it is strictly increasing in the horizon's month count.
C7_StrictlyIncreasing ==
  (pc = "done" /\ IsFinite(CallMonths)) =>
    /\ \A b \in Budgets :
         NumLess(userData.monthlyBudget, b)
           => NumLess(portfolioData.projectedValue, ProjectedWithBudget(b))
    /\ \A h \in HorizonLabels :
         ( /\ ~IsZero(userData.monthlyBudget)
           /\ userData.timeHorizon \in HorizonLabels
           /\ ClaimedMonths(userData.timeHorizon) < ClaimedMonths(h) )
           => NumLess(portfolioData.projectedValue, ProjectedWithHorizon(h))

\* C7 as amended: the rounded projectedValue is non-decreasing in
\* monthlyBudget and in the month count, strictly increasing between two
\* budgets at least 1 apart, and strictly increasing in the month count
\* for a budget of at least 1.
C7_IncreasingByWholeUnits ==
  (pc = "done" /\ IsFinite(CallMonths)) =>
    /\ \A b \in Budgets :
         /\ NumLess(userData.monthlyBudget, b)
              => NumLeq(portfolioData.projectedValue, ProjectedWithBudget(b))
         /\ NumLeq(JSAdd(userData.monthlyBudget, Num(1, 1)), b)
              => NumLess(portfolioData.projectedValue, ProjectedWithBudget(b))
    /\ \A h \in HorizonLabels :
         ( /\ userData.timeHorizon \in HorizonLabels
           /\ ClaimedMonths(userData.timeHorizon) < ClaimedMonths(h) )
           => /\ NumLeq(portfolioData.projectedValue, ProjectedWithHorizon(h))
              /\ NumLeq(Num(1, 1), userData.monthlyBudget)
                   => NumLess(portfolioData.projectedValue, ProjectedWithHorizon(h))

\* the budget 50 over 3 months at the low template: 50.1 projects to the
\* same 151, 100 to more
C7_Witness ==
  /\ pc = "done"
  /\ userData.monthlyBudget = Num(50, 1)
  /\ userData.riskTolerance = "low"
  /\ userData.timeHorizon = "3-months"
  /\ IntOf(portfolioData.projectedValue) = 151
  /\ ProjectedWithBudget(Num(501, 10)) = portfolioData.projectedValue
  /\ NumLess(portfolioData.projectedValue, ProjectedWithBudget(Num(100, 1)))

Zero == Num(0, 1)
Hundred == Num(100, 1)

\* C8: shortfall and surplus are both >= 0, exactly one of them is nonzero
\* when projectedValue differs from goalAmount, and both are zero when
\* the two are equal.
C8_ShortfallSurplus ==
  pc = "mounted" =>
    /\ NumLeq(Zero, shortfall)
    /\ NumLeq(Zero, surplus)
    /\ NumLess(props.projectedValue, goalAmount)
         => /\ NumEq(shortfall, JSSub(goalAmount, props.projectedValue))
            /\ ~IsZero(shortfall)
            /\ IsZero(surplus)
    /\ NumLess(goalAmount, props.projectedValue)
         => /\ NumEq(surplus, JSSub(props.projectedValue, goalAmount))
            /\ ~IsZero(surplus)
            /\ IsZero(shortfall)
    /\ NumEq(props.projectedValue, goalAmount)
         => IsZero(shortfall) /\ IsZero(surplus)

\* a shortfall, reached by typing a goal above the projection
C8_Witness ==
  /\ pc = "mounted"
  /\ props.projectedValue = Num(628, 1)
  /\ goalAmount = Num(2001, 1)
  /\ IntOf(shortfall) = 1373
  /\ IsZero(surplus)

\* C9: for goalAmount > 0 and projectedValue >= 0, goalProgress lies in
\* [0,100] and is 100 exactly when projectedValue >= goalAmount; the
\* progress of each of the three scenarios (0.75, 1, 1.25 times the goal)
\* is capped the same way.
C9_ProgressCapped ==
  (pc = "mounted" /\ NumLess(Zero, goalAmount) /\ NumLeq(Zero, props.projectedValue)) =>
    /\ NumLeq(Zero, goalProgress)
    /\ NumLeq(goalProgress, Hundred)
    /\ NumEq(goalProgress, Hundred) <=> NumLeq(goalAmount, props.projectedValue)
    /\ showRecommendations =>
         /\ Len(goalScenarios) = 3
         /\ \A i \in 1..3 :
              /\ NumEq(JSMul(goalScenarios[i].amount, Num(4, 1)),
                       JSMul(goalAmount, Num(i + 2, 1)))
              /\ NumLeq(Zero, scenarioProgress(i))
              /\ NumLeq(scenarioProgress(i), Hundred)
              /\ NumEq(scenarioProgress(i), Hundred)
                   <=> NumLeq(goalScenarios[i].amount, props.projectedValue)

\* the projection 2000 against the typed goal 2001 with the scenarios
\* open: the 0.75 scenario is capped, the target is just below 100
C9_Witness ==
  /\ pc = "mounted"
  /\ showRecommendations
  /\ props.projectedValue = Num(2000, 1)
  /\ goalAmount = Num(2001, 1)
  /\ NumLess(goalProgress, Hundred)
  /\ NumEq(scenarioProgress(1), Hundred)
  /\ NumLess(scenarioProgress(3), Hundred)

\* C10: calculateRequiredMonthly(target, months, annualReturn) is
\* target * r / ((1+r)^months - 1) with r = annualReturn/100/12 when r # 0
\* and target / months when r = 0, r being the engine's monthly rate.
C10_RequiredMonthly ==
  pc = "mounted" =>
    LET r == EngineMonthlyReturn(props.expectedReturn)
        growth == JSSub(MathPow(JSAdd(Num(1, 1), r), GoalMonths), Num(1, 1))
    IN /\ IsFinite(requiredMonthly)
       /\ ~IsZero(r) => NumEq(JSMul(requiredMonthly, growth), JSMul(goalAmount, r))
       /\ IsZero(r) => NumEq(JSMul(requiredMonthly, GoalMonths), goalAmount)

\* 2001 in 12 months at 9.8%: 159.39.., shown as 160 per month
C10_Witness ==
  /\ pc = "mounted"
  /\ props.expectedReturn = Num(98, 10)
  /\ props.timeframe = "1-year"
  /\ goalAmount = Num(2001, 1)
  /\ IntOf(MathCeil(requiredMonthly)) = 160

(***************************************************************************)
(* Properties of the goal analysis that involve the engine's formula.      *)
(***************************************************************************)
\* |x| of a number
Abs(x) == IF x.kind \in {"finite", "Infinity"} /\ x.neg THEN Negate(x) ELSE x

\* the rounding tolerance of a round trip: one cent
RoundTripTolerance == Num(1, 100)

\* the required contribution of the goal, projected with the engine's formula
ProjectedRequired ==
  FutureValueOfAnnuity(requiredMonthly, props.expectedReturn, GoalMonths)

C11_RoundTripAtPositiveReturn ==
  (pc = "mounted" /\ NumLess(Zero, goalAmount) /\ NumLess(Zero, props.expectedReturn))
    => NumLeq(Abs(JSSub(ProjectedRequired, goalAmount)), RoundTripTolerance)

\* C12: the 'Extend Timeline' option shown with a shortfall is
\* ceil(goalAmount / projectedValue * months), the months scaled linearly
\* by goal over projection: the integer T with
\* (T - 1) * projectedValue < goalAmount * months <= T * projectedValue
\* (no finite T, so Infinity, when projectedValue is 0); the 'months longer'
\* shown is that T minus months.
C12_ExtendTimeline ==
  (pc = "mounted" /\ recommendationsShown)
    => /\ NumLess(Zero, props.projectedValue)
          => /\ IsIntegral(extendedTimeline)
             /\ NumLeq(JSMul(goalAmount, GoalMonths),
                       JSMul(extendedTimeline, props.projectedValue))
             /\ NumLess(JSMul(JSSub(extendedTimeline, Num(1, 1)), props.projectedValue),
                        JSMul(goalAmount, GoalMonths))
       /\ IsZero(props.projectedValue) => extendedTimeline = Infinity
       /\ NumEq(JSAdd(monthsLonger, GoalMonths), extendedTimeline)

\* a shortfall whose scaled horizon is not a whole number of months:
\* goal 2001 against a projection of 628 over 12 months, 39 months
C12_Witness ==
  /\ pc = "mounted"
  /\ recommendationsShown
  /\ NumEq(goalAmount, Num(2001, 1))
  /\ NumEq(props.projectedValue, Num(628, 1))
  /\ NumEq(GoalMonths, Num(12, 1))
  /\ NumEq(extendedTimeline, Num(39, 1))
  /\ NumEq(monthsLonger, Num(27, 1))

(***************************************************************************)
(* Properties of the DCA simulator, checked under SpecDCA.                 *)
(***************************************************************************)
\* C13: generateDCAData returns exactly months + 1 points whose month
\* indices are 0..months in increasing order; point 0 has dca = 0 and
\* contributions = 0, and point k has contributions = k * customMonthly.
C13_SeriesShape ==
  pc = "simulator"
    => LET data == generateDCAData
       IN /\ IsIntegral(DCAMonths)
          /\ Len(data) = NatOf(DCAMonths) + 1
          /\ \A i \in 1..Len(data) :
               /\ At(data, i).month = i - 1
               /\ NumEq(At(data, i).contributions, JSMul(Num(i - 1, 1), customMonthly))
          /\ IsZero(At(data, 1).dca)
          /\ IsZero(At(data, 1).contributions)

\* a five-year series of 100.50 a month: 61 points, 6030 contributed
C13_Witness ==
  /\ pc = "simulator"
  /\ NumEq(customMonthly, Num(1005, 10))
  /\ props.timeframe = "5-years"
  /\ LET data == generateDCAData
     IN /\ Len(data) = 61
        /\ At(data, 61).month = 60
        /\ NumEq(At(data, 61).contributions, Num(6030, 1))

\* the annual percentage of the panel as the claims' monthly rate r, and 1 + r
ClaimedRate == JSDiv(props.expectedReturn, Num(1200, 1))
ClaimedGrowth == JSAdd(Num(1, 1), ClaimedRate)

\* The unrounded values the recurrences of C14 define at month k, solved:
\* dca_0 = 0, dca_k = (dca_(k-1) + c)(1 + r) gives c(1+r)(1 + ... + (1+r)^(k-1));
\* lump_0 = c * months, lump_k = lump_(k-1)(1 + r) gives c * months * (1+r)^k.
UnroundedAt(k) ==
  LET g == GeometricSeries(ClaimedGrowth, k)
  IN [dca |-> JSMul(JSMul(customMonthly, ClaimedGrowth), g.sum),
      lumpSum |-> JSMul(JSMul(customMonthly, DCAMonths), g.pow)]

\* C14: each emitted point k carries the rounding of the unrounded
\* recurrences dca_0 = 0, dca_k = (dca_(k-1) + c)(1 + r) and
\* lump_0 = c * months, lump_k = lump_(k-1)(1 + r): the rounding is applied
\* to the emitted values only and never fed back into the recurrence.
C14_UnroundedRecurrence ==
  pc = "simulator"
    => LET data == generateDCAData
       IN \A i \in 1..Len(data) :
            LET u == UnroundedAt(i - 1)
            IN /\ NumEq(At(data, i).dca, MathRound(u.dca))
               /\ NumEq(At(data, i).lumpSum, MathRound(u.lumpSum))

\* 100.50 a month over two years at 12.1 percent: the unrounded series ends
\* at 2740.87..., emitted as 2741 (a series rounded every month ends at 2744)
C14_Witness ==
  /\ pc = "simulator"
  /\ NumEq(customMonthly, Num(1005, 10))
  /\ props.timeframe = "2-years"
  /\ NumEq(props.expectedReturn, Num(121, 10))
  /\ NumEq(finalDCA, Num(2741, 1))
  /\ ~IsIntegral(UnroundedAt(24).dca)

\* C15: for every monthly amount c >= 0, every constant return above 0 and
\* every horizon, the final lump-sum value is at least the final DCA value.
C15_LumpSumDominates ==
  (pc = "simulator" /\ NumLeq(Zero, customMonthly) /\ NumLess(Zero, props.expectedReturn))
    => LET last == LastPoint
       IN NumLeq(last.dca, last.lumpSum)

\* 25 a month over five years at 7.8 percent: the lump sum ends strictly
\* above the DCA series, which itself ends above the 1500 contributed
C15_Witness ==
  /\ pc = "simulator"
  /\ NumEq(customMonthly, Num(25, 1))
  /\ props.timeframe = "5-years"
  /\ NumEq(props.expectedReturn, Num(78, 10))
  /\ LET last == LastPoint
     IN /\ NumLess(last.dca, last.lumpSum)
        /\ NumLess(Num(1500, 1), last.dca)

(***************************************************************************)
(* Degenerate inputs of the goal analysis, checked under SpecGoalTracker.  *)
(***************************************************************************)
\* C16: degenerate inputs are guarded: with goalAmount = 0 or
\* projectedValue = 0 the goal analysis (progress, required monthly
\* contribution, extended timeline where it is shown) gives defined, finite
\* values and never Infinity or NaN.
C16_DegenerateGuarded ==
  (pc = "mounted" /\ (IsZero(goalAmount) \/ IsZero(props.projectedValue)))
    => /\ IsFinite(goalProgress)
       /\ IsFinite(requiredMonthly)
       /\ recommendationsShown => IsFinite(extendedTimeline) /\ IsFinite(monthsLonger)

\* the progress alone, with both the goal and the projection at 0
C16_ProgressDefined ==
  (pc = "mounted" /\ IsZero(goalAmount) /\ IsZero(props.projectedValue))
    => IsFinite(goalProgress)

(***************************************************************************)
(* The blended return of a portfolio.                                      *)
(***************************************************************************)
\* the sum of allocation_i * expectedReturn_i over the investments
RECURSIVE WeightedSum(_)
WeightedSum(investments) ==
  IF investments = <<>> THEN Num(0, 1)
  ELSE JSAdd(JSMul(Num(Head(investments).allocation, 1), Head(investments).expectedReturn),
             WeightedSum(Tail(investments)))

\* the allocation-weighted average sum(allocation_i * expectedReturn_i) / 100
BlendedReturn(investments) == JSDiv(WeightedSum(investments), Num(100, 1))

\* C17: the totalExpectedReturn of the returned portfolio is the blended
\* return of its investments, the allocation-weighted average
\* sum(allocation_i * expectedReturn_i) / 100, which is also the average
\* return generateHistoricalData computes for the same investments.
C17_BlendedReturn ==
  pc = "done"
    => /\ NumEq(portfolioData.totalExpectedReturn, BlendedReturn(portfolioData.investments))
       /\ NumEq(avgReturn(portfolioData.investments), BlendedReturn(portfolioData.investments))

\* the half of C17 about generateHistoricalData alone
C17_HistoricalAverageIsBlended ==
  pc = "done"
    => NumEq(avgReturn(portfolioData.investments), BlendedReturn(portfolioData.investments))

\* the returns of the templates against their blended returns
C17_TemplateReturns ==
  pc = "done"
    => LET blended == BlendedReturn(portfolioData.investments)
           fixed == portfolioData.totalExpectedReturn
       IN CASE userData.riskTolerance = "low" ->
                 NumEq(fixed, Num(78, 10)) /\ NumEq(blended, Num(876, 100))
            [] userData.riskTolerance = "medium" ->
                 NumEq(fixed, Num(98, 10)) /\ NumEq(blended, Num(10395, 1000))
            [] userData.riskTolerance = "high" ->
                 NumEq(fixed, Num(121, 10)) /\ NumEq(blended, Num(1207, 100))
            [] OTHER ->
                 NumEq(fixed, Num(105, 10)) /\ NumEq(blended, Num(105, 10))

(***************************************************************************)
(* Properties of generateHistoricalData, checked under SpecBacktest.       *)
(***************************************************************************)
\* the risk levels present in a portfolio, and the band C18 gives it
RiskLevels(investments) == {investments[i].riskLevel : i \in 1..Len(investments)}
ClaimedBand(investments) ==
  IF "high" \in RiskLevels(investments) THEN Num(15, 100)
  ELSE IF "medium" \in RiskLevels(investments) THEN Num(10, 100)
  ELSE Num(6, 100)

\* 1 + avgReturn/100/12 + u * volatility/12 for the draw of the next pass,
\* with avgReturn the blended return and u = Math.random() - 0.5
ClaimedNoise == JSSub(DrawOf(backtest.stream, backtest.month), Num(1, 2))
ClaimedGrowthFactor ==
  JSAdd(JSAdd(Num(1, 1), JSDiv(BlendedReturn(backtest.investments), Num(1200, 1))),
        JSDiv(JSMul(ClaimedNoise, ClaimedBand(backtest.investments)), Num(12, 1)))

\* C18: the volatility of a run is 0.15 if any instrument has riskLevel
\* high, otherwise 0.10 if any has riskLevel medium, otherwise 0.06; and in
\* each month after month 0 the value, with the month's contribution added,
\* grows by the factor 1 + avgReturn/100/12 + u * volatility/12 with
\* -0.5 <= u < 0.5.
C18_VolatilityBands ==
  [][(pc = "history" /\ backtest'.month = backtest.month + 1)
       => /\ NumEq(backtest.volatility, ClaimedBand(backtest.investments))
          /\ backtest.month > 0
               => /\ NumLeq(Negate(Num(1, 2)), ClaimedNoise)
                  /\ NumLess(ClaimedNoise, Num(1, 2))
                  /\ NumEq(backtest'.portfolioValue,
                           JSMul(JSAdd(backtest.portfolioValue, backtest.monthlyAmount),
                                 ClaimedGrowthFactor))]_vars

\* a finished three-year run of the high template (QQQ is high, VTI medium)
\* at volatility 0.15 whose draws alternate between the two ends of [0, 1)
C18_Witness ==
  /\ pc = "charted"
  /\ backtest.months = 36
  /\ "high" \in RiskLevels(backtest.investments)
  /\ "medium" \in RiskLevels(backtest.investments)
  /\ NumEq(backtest.volatility, Num(15, 100))
  /\ Len(backtest.stream) = 2
  /\ ~NumEq(backtest.stream[1], backtest.stream[2])
  /\ Len(backtest.data) = 37

(***************************************************************************)
(* Properties of the wizard, checked under SpecWizard.                     *)
(***************************************************************************)
\* the transitions C19 allows
LinearTransitions ==
  {<<"welcome", "form">>, <<"form", "welcome">>, <<"form", "results">>,
   <<"results", "form">>, <<"results", "welcome">>}

\* C19: the step is always one of welcome, form, results, it changes to
\* results only from form, and its only other changes are welcome->form,
\* form->welcome, results->form and results->welcome, whatever the
\* interleaving of the clicks with the delayed end of a submission.
C19_LinearTransitions ==
  [][/\ step' \in {"welcome", "form", "results"}
     /\ step' # step => <<step, step'>> \in LinearTransitions]_vars

\* the part of C19 that holds: the step stays one of the three
C19_StepInRange == step \in {"welcome", "form", "results"}

\* the data of the submission whose delay is running or whose call has resumed
SubmittedData == Head(pending)

\* C20: a submission waits, then computes, then renders: isLoading is set
\* at the submission and stays true for the whole delay;
\* generatePortfolioRecommendation is evaluated only after the delay, on
\* exactly the submitted data; and the step becomes results only after
\* portfolioData and formData have been set from that data and isLoading
\* has been cleared.
C20_WaitComputeRender ==
  [][/\ Len(pending') > Len(pending) => isLoading'
     /\ (pending' # << >> /\ pc' = "idle") => isLoading'
     /\ (portfolioData' # portfolioData /\ portfolioData' # Null)
          => /\ pc = "resumed"
             /\ portfolioData' = generatePortfolioRecommendation(SubmittedData)
     /\ (formData' # formData /\ formData' # Null)
          => /\ pc # "idle"
             /\ formData' = SubmittedData
     /\ (step' = "results" /\ step # "results")
          => /\ portfolioData = generatePortfolioRecommendation(SubmittedData)
             /\ formData = SubmittedData
             /\ ~isLoading]_vars

\* a submission of 100 a month at high risk that has ended on the results
\* page with its recommendation
C20_Witness ==
  /\ pc = "idle"
  /\ step = "results"
  /\ ~isLoading
  /\ pending = << >>
  /\ formData \in WizardSubmissions
  /\ formData.riskTolerance = "high"
  /\ NumEq(formData.monthlyBudget, Num(100, 1))
  /\ portfolioData = generatePortfolioRecommendation(formData)

(***************************************************************************)
(* Properties of the export panel, checked under SpecExport.               *)
(***************************************************************************)
\* C21: a failure during PDF generation is recoverable: it is reported,
\* the portfolio passed to the panel is unchanged, isGenerating is false
\* again after the success and after the failure path, so the button is
\* enabled for a retry, and no generation starts while isGenerating is true.
C21_RecoverableFailure ==
  [][/\ props' = props
     /\ (pc = "try" /\ pc' = "finally")
          => exportLog' \in {Append(exportLog, "saved"), Append(exportLog, "alert")}
     /\ pc' = "export" => ~isGenerating'
     /\ pc' = "try" => (pc = "export" /\ ~isGenerating /\ isGenerating')]_vars

\* a failed generation, reported, followed by a retry that saved the PDF
C21_Witness ==
  /\ pc = "export"
  /\ ~isGenerating
  /\ exportLog = <<"alert", "saved">>

(***************************************************************************)
(* Properties of the row-level security, checked under SpecDatabase.       *)
(***************************************************************************)
\* C22: on portfolios and investment_goals every statement the policies
\* permit reads, creates, changes and removes only rows whose user_id is
\* the caller's identity: the rows a statement returns, the rows it takes
\* out of a table (removed, or changed from) and the rows it puts into one
\* (created, or changed to) all bear the caller's identity, so no update
\* hands a row to another identity.
C22_OwnRowsOnly ==
  [][\A t \in TableNames :
       /\ \A r \in tables[t] \ tables'[t] : r.user_id = lastOp'.caller
       /\ \A r \in tables'[t] \ tables[t] : r.user_id = lastOp'.caller
       /\ \A r \in lastOp'.read : r.user_id = lastOp'.caller]_vars

\* both users hold rows in both tables and bob has just read his own
C22_Witness ==
  /\ pc = "database"
  /\ \A t \in TableNames : {r.user_id : r \in tables[t]} = Users
  /\ lastOp.caller = "bob"
  /\ lastOp.read # {}

(***************************************************************************)
(* The 'Extend Timeline' estimate against the compounding formula, checked *)
(* under SpecGoalTracker.                                                  *)
(***************************************************************************)
\* the panel shows a portfolio of the engine: projectedValue is the rounded
\* future value of monthlyAmount over the panel's months at its return
PropsFromEngine ==
  NumEq(props.projectedValue,
        MathRound(FutureValueOfAnnuity(props.monthlyAmount, props.expectedReturn,
                                       GoalMonths)))

\* the case of C23: an engine portfolio with a positive return and a goal
\* above the projected value
ExtendCase ==
  /\ pc = "mounted"
  /\ PropsFromEngine
  /\ NumLess(Zero, props.expectedReturn)
  /\ NumLess(props.projectedValue, goalAmount)

\* the compounding formula over the extended timeline
ExtendedValue ==
  FutureValueOfAnnuity(props.monthlyAmount, props.expectedReturn, extendedTimeline)

\* C23 as stated: with a positive return and a goal above the projected
\* value, contributing the monthly amount for the extended timeline yields a
\* value still below goalAmount.
C23_LinearUnderstates ==
  ExtendCase => NumLess(ExtendedValue, goalAmount)

\* C23 amended: the value over the extended timeline is at least goalAmount
\* scaled by (unrounded projection / projectedValue), so the linear estimate
\* does not understate the time required.
C23_LinearOverstates ==
  ExtendCase =>
    NumLeq(JSMul(goalAmount,
                 FutureValueOfAnnuity(props.monthlyAmount, props.expectedReturn,
                                      GoalMonths)),
           JSMul(ExtendedValue, props.projectedValue))

\* 50 a month at 9.8 % projects 3851 over 60 months; for a goal of 4000.50
\* the estimate is 63 months, over which the formula gives more than the goal
C23_Witness ==
  /\ ExtendCase
  /\ NumEq(props.projectedValue, Num(3851, 1))
  /\ NumEq(goalAmount, Num(40005, 10))
  /\ NumEq(extendedTimeline, Num(63, 1))
  /\ NumLess(goalAmount, ExtendedValue)

(***************************************************************************)
(* The data of the results page, checked under SpecWizard.                 *)
(***************************************************************************)
\* C24: whenever the step is results, portfolioData and formData are both
\* non-null and portfolioData is the recommendation computed from formData;
\* Start Over (results -> welcome) clears both, and Modify Profile
\* (results -> form) leaves both unchanged.
C24_ResultsData ==
  [][/\ step' = "results"
          => /\ portfolioData' # Null
             /\ formData' # Null
             /\ portfolioData' = generatePortfolioRecommendation(formData')
     /\ (step = "results" /\ step' = "welcome")
          => /\ portfolioData' = Null
             /\ formData' = Null
     /\ (step = "results" /\ step' = "form")
          => /\ portfolioData' = portfolioData
             /\ formData' = formData]_vars

\* back on the form after Modify Profile, with the recommendation for 50 a
\* month at low risk and its form data still in place
C24_Witness ==
  /\ pc = "idle"
  /\ step = "form"
  /\ ~isLoading
  /\ formData \in WizardSubmissions
  /\ formData.riskTolerance = "low"
  /\ NumEq(formData.monthlyBudget, Num(50, 1))
  /\ portfolioData = generatePortfolioRecommendation(formData)

(***************************************************************************)
(* The pending submission, checked under SpecWizardFair.                   *)
(***************************************************************************)
\* C25: at most one submission is pending at any time, and between the
\* handlers isLoading is true exactly while a submission's delay is
\* outstanding; no navigation removes a pending submission, only the end of
\* its own call does; and with the timer firing, every submission
\* eventually ends with isLoading false and the step results.
C25_OnePendingSubmission ==
  /\ [](/\ Len(pending) <= 1
        /\ pc = "idle" => (isLoading <=> pending # << >>))
  /\ [][pending' # pending
          => \/ (pending = << >> /\ Len(pending') = 1 /\ isLoading')
             \/ (pc = "setStep" /\ pending' = << >> /\ step' = "results")]_vars
  /\ (pending # << >>) ~> (pending = << >> /\ ~isLoading /\ step = "results")

\* a submission is pending and the user has gone back to the welcome page
C25_Witness ==
  /\ pc = "idle"
  /\ step = "welcome"
  /\ isLoading
  /\ Len(pending) = 1

(***************************************************************************)
(* The unrounded DCA series month by month, checked under SpecDCA.         *)
(***************************************************************************)
\* the loop variables of generateDCAData before the first pass
FirstRun ==
  [dcaValue |-> Num(0, 1),
   lumpSumValue |-> JSMul(customMonthly, DCAMonths),
   data |-> << >>]

\* the loop variables after the pass for `month`
RunAfter(month) == DCALoop(FirstRun, 0, month)

\* what C26 says of the pass for `month` that takes the loop variables from
\* `before` to `after`
OrderedPass(before, after, month) ==
  /\ NumLeq(JSMul(Num(month, 1), customMonthly), after.dcaValue)
  /\ NumLeq(after.dcaValue, after.lumpSumValue)
  /\ NumLeq(before.dcaValue, after.dcaValue)
  /\ NumLeq(before.lumpSumValue, after.lumpSumValue)

\* the passes for the months lo..hi after acc.run, with OrderedPass of each
\* of them collected in acc.ok
RECURSIVE OrderedPasses(_, _, _)
OrderedPasses(acc, lo, hi) ==
  IF lo > hi THEN acc
  ELSE IF lo = hi
       THEN LET after == DCAStep(acc.run, lo)
            IN [run |-> after, ok |-> acc.ok /\ OrderedPass(acc.run, after, lo)]
  ELSE LET mid == (lo + hi) \div 2
           first == OrderedPasses(acc, lo, mid)
       IN IF Len(first.run.data) > 0 THEN OrderedPasses(first, mid + 1, hi) ELSE first

\* C26: for every contribution c >= 0 and rate r >= 0, at every month k of
\* the series the unrounded values satisfy
\* contributions_k <= dca_k <= lumpSum_k, and the unrounded dca and lumpSum
\* values never decrease from one month to the next.
C26_OrderedEveryMonth ==
  (pc = "simulator" /\ NumLeq(Zero, customMonthly) /\ NumLeq(Zero, props.expectedReturn))
    => OrderedPasses([run |-> FirstRun, ok |-> TRUE], 0, NatOf(DCAMonths)).ok

\* 100 a month over two years at 12.1 percent, at month 12 of 24: 1200
\* contributed, the DCA value strictly above it and the lump sum above both
C26_Witness ==
  /\ pc = "simulator"
  /\ NumEq(customMonthly, Num(100, 1))
  /\ props.timeframe = "2-years"
  /\ NumEq(props.expectedReturn, Num(121, 10))
  /\ LET run == RunAfter(12)
     IN /\ NumLess(Num(1200, 1), run.dcaValue)
        /\ NumLess(run.dcaValue, run.lumpSumValue)

(***************************************************************************)
(* The DCA series against the engine's projection, checked under SpecDCA.  *)
(***************************************************************************)
\* the portfolio the engine makes of the panel's amount and timeframe for
\* a risk tolerance
PortfolioFor(riskTolerance) ==
  generatePortfolioRecommendation(
    [monthlyBudget |-> props.monthlyAmount, riskTolerance |-> riskTolerance,
     investmentGoal |-> "emergency", timeHorizon |-> props.timeframe])

\* the panel shows the portfolio of that risk tolerance at its default amount
ShowsPortfolioFor(riskTolerance) ==
  /\ customMonthly = props.monthlyAmount
  /\ NumEq(PortfolioFor(riskTolerance).totalExpectedReturn, props.expectedReturn)

\* C27: for a contribution c > 0 and a rate r > 0 the unrounded final DCA
\* value is (1 + r) times the engine's ordinary-annuity projection
\* c * ((1+r)^n - 1) / r of the same c, r and n, and the DCA Final Value
\* shown for the default monthly amount is never below the projectedValue
\* of the same portfolio.
C27_AnnuityDue ==
  (pc = "simulator" /\ NumLess(Zero, customMonthly) /\ NumLess(Zero, props.expectedReturn))
    => /\ NumEq(RunAfter(NatOf(DCAMonths)).dcaValue,
                JSMul(JSAdd(Num(1, 1), DCAMonthlyReturn),
                      FutureValueOfAnnuity(customMonthly, props.expectedReturn,
                                           DCAMonths)))
       /\ \A riskTolerance \in RiskTolerances :
            ShowsPortfolioFor(riskTolerance)
              => NumLeq(PortfolioFor(riskTolerance).projectedValue, finalDCA)

\* the high-risk portfolio of 50 a month over five years: the DCA Final
\* Value is strictly above its projectedValue
C27_Witness ==
  /\ pc = "simulator"
  /\ props.timeframe = "5-years"
  /\ ShowsPortfolioFor("high")
  /\ NumLess(PortfolioFor("high").projectedValue, finalDCA)

(***************************************************************************)
(* The recommendations panel, checked under SpecGoalTracker.               *)
(***************************************************************************)
\* C28: the recommendations panel is shown exactly when shortfall > 0; for
\* goalAmount > 0 that is exactly when goalProgress < 100, the badge not
\* being 'Goal Achievable'; and whenever it is shown with projectedValue > 0
\* and months >= 1, the extended timeline is strictly greater than months,
\* so 'months longer' is at least 1.
C28_PanelAndBadge ==
  pc = "mounted"
    => /\ recommendationsShown <=> NumLess(Zero, shortfall)
       /\ NumLess(Zero, goalAmount)
            => (recommendationsShown <=> NumLess(goalProgress, Hundred))
       /\ (/\ recommendationsShown
           /\ NumLess(Zero, props.projectedValue)
           /\ NumLeq(Num(1, 1), GoalMonths))
            => /\ NumLess(GoalMonths, extendedTimeline)
               /\ NumLeq(Num(1, 1), monthsLonger)

\* a goal of 2001 against a projection of 2000 over 12 months: the panel is
\* shown, the progress is below 100 and the option is 13 months, 1 longer
C28_Witness ==
  /\ pc = "mounted"
  /\ recommendationsShown
  /\ NumLess(goalProgress, Hundred)
  /\ NumEq(goalAmount, Num(2001, 1))
  /\ NumEq(props.projectedValue, Num(2000, 1))
  /\ NumEq(GoalMonths, Num(12, 1))
  /\ NumEq(monthsLonger, Num(1, 1))

RECURSIVE SumOfAmounts(_, _)
SumOfAmounts(amounts, n) ==
  IF n = 0 THEN Num(0, 1) ELSE JSAdd(SumOfAmounts(amounts, n - 1), amounts[n])

TotalAmount(data) == SumOfAmounts([i \in 1..Len(data) |-> data[i].amount], Len(data))

RECURSIVE SumOfValues(_, _)
SumOfValues(data, n) ==
  IF n = 0 THEN 0 ELSE SumOfValues(data, n - 1) + data[n].value

\* the engine has returned a portfolio for an integer budget >= 10
BudgetCase ==
  /\ pc = "done"
  /\ IsIntegral(portfolioData.monthlyAmount)
  /\ NumLeq(Num(10, 1), portfolioData.monthlyAmount)

\* regrouping by sector or by risk level preserves the totals: the group
\* percentages sum to 100 and the group amounts to the total of the
\* per-instrument amounts
RegroupingPreservesTotals ==
  BudgetCase =>
    LET investments == portfolioData.investments
        monthlyAmount == portfolioData.monthlyAmount
        total == TotalAmount(allocationData(investments, monthlyAmount))
        sectors == sectorData(investments, monthlyAmount)
        risks == riskData(investments, monthlyAmount)
    IN /\ SumOfValues(sectors, Len(sectors)) = 100
       /\ SumOfValues(risks, Len(risks)) = 100
       /\ NumEq(TotalAmount(sectors), total)
       /\ NumEq(TotalAmount(risks), total)

\* C30: for every template and every integer monthly budget >= 10 the
\* per-instrument amounts round(monthlyAmount * allocation / 100) of the
\* recommendation, the heatmap and the CSV export sum to monthlyAmount, and
\* regrouping in the heatmap by sector or by risk level preserves the
\* totals.
C30_AmountsSumToBudget ==
  BudgetCase =>
    LET investments == portfolioData.investments
        monthlyAmount == portfolioData.monthlyAmount
        shown == recommendationAmounts(portfolioData)
        exported == csvAmounts(portfolioData)
    IN /\ NumEq(SumOfAmounts(shown, Len(shown)), monthlyAmount)
       /\ NumEq(TotalAmount(allocationData(investments, monthlyAmount)), monthlyAmount)
       /\ NumEq(SumOfAmounts(exported, Len(exported)), monthlyAmount)
       /\ RegroupingPreservesTotals
====
